---------------------------- MODULE Spec2Model ----------------------------
(***************************************************************************)
(* Brochure generation of the property-brochure backend (services/pdf.go,  *)
(* the third and current version of the file, src/unnamed/part_006 lines   *)
(* 898-2737).                                                              *)
(*                                                                         *)
(* Lengths are in tenths of a millimetre, so that every coordinate of the  *)
(* source (5.5, 55.9, ...) is an integer.  A Go string is the sequence of  *)
(* its Unicode code points.  A document records the calls the composer     *)
(* issues on the gofpdf object, in order, and gofpdf's sticky error: once  *)
(* a call fails (SetFont with a font the document does not hold, an image  *)
(* it cannot parse) gofpdf keeps the first error and Output returns it.    *)
(***************************************************************************)
EXTENDS Integers, Sequences, FiniteSets, TLC

VARIABLES svc, env, calls, fit, pure, req

vars ==
    <<svc, env, calls, fit, pure, req>>

(* ------------------------------ bounds -------------------------------- *)

\* concurrent generation calls (request handlers running at the same time)
NumCalls == 2
\* number of lines a wrapped text block may take: 1, MidLines or MaxLines
MidLines == 16
MaxLines == 30

LineCounts ==
    {1, MidLines, MaxLines}

(* ------------------- page geometry, part_006:931-936 ------------------ *)

pageWidth == 2100
pageHeight == 2970
marginX == 150
marginY == 150

contentWidth ==
    pageWidth - (2 * marginX)

(* ------------------------ string literals ----------------------------- *)

\* The string literals of the composer, as code points, each with its line in
\* part_006.
Lit ==
    [ \* part_006:1052  "Property Brochure"
      PropertyBrochureEn |-> <<80,114,111,112,101,114,116,121,32,66,114,111,99,104,117,114,101>>,
      \* part_006:2356  "Arabic literal, 11 code points"
      PropertyBrochureAr |-> <<1603,1578,1610,1576,32,1575,1604,1593,1602,1575,1585>>,
      \* part_006:1076  "Image Not Available"
      ImageNotAvailable |-> <<73,109,97,103,101,32,78,111,116,32,65,118,97,105,108,97,98,108,101>>,
      \* part_006:1085  "No Image Available"
      NoImageAvailable |-> <<78,111,32,73,109,97,103,101,32,65,118,97,105,108,97,98,108,101>>,
      \* part_006:1187  "Property Description"
      DescLabelEn |-> <<80,114,111,112,101,114,116,121,32,68,101,115,99,114,105,112,116,105,111,110>>,
      \* part_006:1188  "Key Highlights"
      HighlightsLabelEn |-> <<75,101,121,32,72,105,103,104,108,105,103,104,116,115>>,
      \* part_006:1189  "Amenities & Features"
      AmenitiesLabelEn |-> <<65,109,101,110,105,116,105,101,115,32,38,32,70,101,97,116,117,114,101,115>>,
      \* part_006:1199  "No description available."
      NoDescriptionEn |-> <<78,111,32,100,101,115,99,114,105,112,116,105,111,110,32,97,118,97,105,108,97,98,108,101,46>>,
      \* part_006:1313  "Arabic literal, 10 code points"
      DescLabelAr |-> <<1608,1589,1601,32,1575,1604,1593,1602,1575,1585>>,
      \* part_006:1314  "Arabic literal, 17 code points"
      HighlightsLabelAr |-> <<1575,1604,1605,1605,1610,1586,1575,1578,32,1575,1604,1585,1574,1610,1587,1610,1577>>,
      \* part_006:1315  "Arabic literal, 16 code points"
      AmenitiesLabelAr |-> <<1575,1604,1605,1585,1575,1601,1602,32,1608,1575,1604,1605,1610,1586,1575,1578>>,
      \* part_006:1322  "Arabic literal, 16 code points"
      NoDescriptionAr |-> <<1604,1575,32,1610,1608,1580,1583,32,1608,1589,1601,32,1605,1578,1575,1581>>,
      \* part_006:1464  "Arabic literal, 14 code points"
      InvestmentTitleAr |-> <<1601,1585,1589,1577,32,1575,1587,1578,1579,1605,1575,1585,1610,1577>>,
      \* part_006:1465  "Arabic literal, 38 code points"
      InvestmentTextAr |-> <<1610,1605,1579,1604,32,1607,1584,1575,32,1575,1604,1593,1602,1575,1585,32,1601,1585,1589,1577,32,1575,1587,1578,1579,1605,1575,1585,1610,1577,32,1605,1605,1578,1575,1586,1577,46>>,
      \* part_006:1474  "Investment Opportunity"
      InvestmentTitleEn |-> <<73,110,118,101,115,116,109,101,110,116,32,79,112,112,111,114,116,117,110,105,116,121>>,
      \* part_006:1475  "This property represents an excellent investment opportunity."
      InvestmentTextEn |-> <<84,104,105,115,32,112,114,111,112,101,114,116,121,32,114,101,112,114,101,115,101,110,116,115,32,97,110,32,101,120,99,101,108,108,101,110,116,32,105,110,118,101,115,116,109,101,110,116,32,111,112,112,111,114,116,117,110,105,116,121,46>>,
      \* part_006:1504  "Property Gallery"
      GalleryLabelEn |-> <<80,114,111,112,101,114,116,121,32,71,97,108,108,101,114,121>>,
      \* part_006:1509  "Arabic literal, 11 code points"
      GalleryLabelAr |-> <<1605,1593,1585,1590,32,1575,1604,1593,1602,1575,1585>>,
      \* part_006:1653  "Arabic Description"
      ArabicDescriptionHeader |-> <<65,114,97,98,105,99,32,68,101,115,99,114,105,112,116,105,111,110>>,
      \* part_006:2113  "Contact Your Agent"
      ContactYourAgent |-> <<67,111,110,116,97,99,116,32,89,111,117,114,32,65,103,101,110,116>>,
      \* part_006:2114  "Name:"
      NameLabelEn |-> <<78,97,109,101,58>>,
      \* part_006:2115  "Email:"
      EmailLabelEn |-> <<69,109,97,105,108,58>>,
      \* part_006:2116  "Phone:"
      PhoneLabelEn |-> <<80,104,111,110,101,58>>,
      \* part_006:2101  "Arabic literal, 6 code points"
      NameLabelAr |-> <<1575,1604,1575,1587,1605,58>>,
      \* part_006:2102  "Arabic literal, 18 code points"
      EmailLabelAr |-> <<1575,1604,1576,1585,1610,1583,32,1575,1604,1573,1604,1603,1578,1585,1608,1606,1610,58>>,
      \* part_006:2103  "Arabic literal, 7 code points"
      PhoneLabelAr |-> <<1575,1604,1607,1575,1578,1601,58>>,
      \* part_006:2198  "Arabic literal, 138 code points"
      ThankYouAr |-> <<1606,1588,1603,1585,1603,1605,32,1593,1604,1609,32,1575,1607,1578,1605,1575,1605,1603,1605,32,1576,1607,1584,1575,32,1575,1604,1593,1602,1575,1585,32,1575,1604,1575,1587,1578,1579,1606,1575,1574,1610,46,32,1606,1581,1606,32,1606,1602,1583,1585,32,1575,1607,1578,1605,1575,1605,1603,1605,32,1608,1610,1587,1593,1583,1606,1575,32,1578,1586,1608,1610,1583,1603,1605,32,1576,1605,1593,1604,1608,1605,1575,1578,32,1573,1590,1575,1601,1610,1577,32,1571,1608,32,1578,1585,1578,1610,1576,32,1605,1608,1593,1583,32,1604,1604,1605,1593,1575,1610,1606,1577,32,1601,1610,32,1575,1604,1608,1602,1578,32,1575,1604,1605,1606,1575,1587,1576,32,1604,1603,1605,46>>,
      \* part_006:2201  "Thank you for considering this exceptional property. We appreciate your interest and would be delighted to provide you with additional information or arrange a viewing at your convenience."
      ThankYouEn |-> <<84,104,97,110,107,32,121,111,117,32,102,111,114,32,99,111,110,115,105,100,101,114,105,110,103,32,116,104,105,115,32,101,120,99,101,112,116,105,111,110,97,108,32,112,114,111,112,101,114,116,121,46,32,87,101,32,97,112,112,114,101,99,105,97,116,101,32,121,111,117,114,32,105,110,116,101,114,101,115,116,32,97,110,100,32,119,111,117,108,100,32,98,101,32,100,101,108,105,103,104,116,101,100,32,116,111,32,112,114,111,118,105,100,101,32,121,111,117,32,119,105,116,104,32,97,100,100,105,116,105,111,110,97,108,32,105,110,102,111,114,109,97,116,105,111,110,32,111,114,32,97,114,114,97,110,103,101,32,97,32,118,105,101,119,105,110,103,32,97,116,32,121,111,117,114,32,99,111,110,118,101,110,105,101,110,99,101,46>> ]

\* Sample field values of a property record, as code points.
Sample ==
    [ \* "Villa"
      TitleUser |-> <<86,105,108,108,97>>,
      \* "Sea Villa"
      TitleLocEn |-> <<83,101,97,32,86,105,108,108,97>>,
      TitleLocAr |-> <<1601,1610,1604,1575>>,
      \* "Nice home"
      DescUser |-> <<78,105,99,101,32,104,111,109,101>>,
      \* "Bright"
      DescAIEn |-> <<66,114,105,103,104,116>>,
      DescAIAr |-> <<1605,1588,1585,1602>>,
      \* "Sunny"
      DescLocEn |-> <<83,117,110,110,121>>,
      DescLocAr |-> <<1605,1588,1605,1587>>,
      DescLocArGarbled |-> <<195,732,194,180>>,
      \* "About"
      LblDesc |-> <<65,98,111,117,116>>,
      LblDescAr |-> <<1581,1608,1604>>,
      \* "Top"
      LblHigh |-> <<84,111,112>>,
      LblHighAr |-> <<1571,1607,1605>>,
      \* "Extras"
      LblAmen |-> <<69,120,116,114,97,115>>,
      LblAmenAr |-> <<1605,1586,1575,1610,1575>>,
      \* "Photos"
      LblGallery |-> <<80,104,111,116,111,115>>,
      LblGalleryAr |-> <<1589,1608,1585>>,
      \* "Agent"
      LblAgent |-> <<65,103,101,110,116>>,
      LblAgentAr |-> <<1608,1603,1610,1604>>,
      \* "Invest"
      AddTitle |-> <<73,110,118,101,115,116>>,
      AddTitleAr |-> <<1575,1587,1578,1579,1605,1585>>,
      \* "Good yield"
      AddText |-> <<71,111,111,100,32,121,105,101,108,100>>,
      AddTextAr |-> <<1593,1575,1574,1583>>,
      \* "Thanks"
      ThanksLoc |-> <<84,104,97,110,107,115>>,
      ThanksLocAr |-> <<1588,1603,1585,1575>>,
      HlPool |-> <<8226,32,80,111,111,108>>,
      \* "- Gym"
      HlGym |-> <<45,32,71,121,109>>,
      HlPoolAr |-> <<8226,32,1605,1587,1576,1581>>,
      \* "View"
      HlAI |-> <<86,105,101,119>>,
      \* "Pool"
      AmPool |-> <<80,111,111,108>>,
      \* "Gym"
      AmGym |-> <<71,121,109>>,
      \* "Spa"
      AmSpa |-> <<83,112,97>>,
      \* "Bar"
      AmBar |-> <<66,97,114>>,
      \* "Lift"
      AmLift |-> <<76,105,102,116>>,
      AmPoolAr |-> <<1605,1587,1576,1581>>,
      AmGymAr |-> <<1606,1575,1583,1610>> ]

(* --------------------------- Go strings ------------------------------- *)

\* strings.HasPrefix on valid UTF-8 text
HasPrefix(s, p) ==
    /\ Len(p) <= Len(s)
    /\ SubSeq(s, 1, Len(p)) = p

\* s[n:] counted in code points
Drop(s, n) ==
    SubSeq(s, n + 1, Len(s))

\* unicode.IsSpace, the code points strings.TrimSpace removes
IsSpace(c) ==
    \/ c \in {9, 10, 11, 12, 13, 32, 133, 160, 5760, 8232, 8233, 8239, 8287, 12288}
    \/ c \in 8192..8202

RECURSIVE TrimLeft(_)
TrimLeft(s) ==
    IF s # <<>> /\ IsSpace(Head(s)) THEN TrimLeft(Tail(s)) ELSE s

RECURSIVE TrimRight(_)
TrimRight(s) ==
    IF s # <<>> /\ IsSpace(s[Len(s)]) THEN TrimRight(SubSeq(s, 1, Len(s) - 1)) ELSE s

TrimSpace(s) ==
    TrimRight(TrimLeft(s))

\* the prefixes of sanitizeBulletText, in the order of the source:
\* mojibake bullet, bullet, "->", "=>", em dash, middle dot, "--", "-", "*"
BulletPrefixes ==
    << <<226, 8364, 162>>, <<8226>>, <<45, 62>>, <<61, 62>>, <<8212>>,
       <<183>>, <<45, 45>>, <<45>>, <<42>> >>

RECURSIVE StripFirstPrefix(_, _)
StripFirstPrefix(trimmed, i) ==
    IF i > Len(BulletPrefixes) THEN trimmed
    ELSE LET p == BulletPrefixes[i] IN
         IF HasPrefix(trimmed, p \o <<32>>) THEN TrimSpace(Drop(trimmed, Len(p) + 1))
         ELSE IF HasPrefix(trimmed, p) THEN TrimSpace(Drop(trimmed, Len(p)))
         ELSE StripFirstPrefix(trimmed, i + 1)

\* the sanitizer taking off one leading character of a prefix at a time
sanitizeOneCharacter(text) ==
    LET trimmed == TrimSpace(text) IN
    IF trimmed # <<>> /\ trimmed[1] \in {8226, 45, 61, 8212, 183, 42}
    THEN TrimSpace(Drop(trimmed, 1)) ELSE trimmed

sanitizeBulletText(text) ==
    StripFirstPrefix(TrimSpace(text), 1)

\* the UTF-8 encoding of one code point
UTF8(c) ==
    IF c < 128 THEN <<c>>
    ELSE IF c < 2048 THEN <<192 + (c \div 64), 128 + (c % 64)>>
    ELSE IF c < 65536
         THEN <<224 + (c \div 4096), 128 + ((c \div 64) % 64), 128 + (c % 64)>>
    ELSE <<240 + (c \div 262144), 128 + ((c \div 4096) % 64),
           128 + ((c \div 64) % 64), 128 + (c % 64)>>

RECURSIVE UTF8Bytes(_)
UTF8Bytes(s) ==
    IF s = <<>> THEN <<>> ELSE UTF8(Head(s)) \o UTF8Bytes(Tail(s))

HasArabicRune(s) ==
    \E i \in 1..Len(s) : s[i] >= 1536 /\ s[i] <= 1791

\* the repair without the test for Arabic code points
FixWithoutArabicCheck(text) ==
    IF ~(\E i \in 1..Len(text) : text[i] = 195) THEN text ELSE UTF8Bytes(text)

\* charmap.ISO8859_1.NewDecoder() over the bytes of text: every byte becomes the
\* code point of the same value; this decoder has no failing input
fixMojibakeLatin1ToUTF8(text) ==
    IF HasArabicRune(text) THEN text
    ELSE IF ~(\E i \in 1..Len(text) : text[i] = 195) THEN text
    ELSE UTF8Bytes(text)

(* --------------------------- the network ------------------------------ *)

\* A URL is its text up to the last 20 bytes and those last 20 bytes.
Url(head, tail) ==
    [head |-> head, tail |-> tail]

UWide == Url("https://bucket/properties/a", "wide-1200x800.jpg?s1")
UTall == Url("https://bucket/properties/bt", "all-0600x0900.png?s2")
UGone == Url("https://bucket/properties/cg", "one-not-found.jpg?s3")
UHtml == Url("https://bucket/properties/dp", "age-not-image.jpg?s4")
UTrunc == Url("https://bucket/properties/etr", "unc-cut-short.jpg?s5")
ULogo == Url("https://cdn/brand/l", "ogo-0512x0512.png?s6")
NoUrl == Url("", "")

\* What http.Get, image.Decode and gofpdf's image parser make of each URL:
\*   status  200, or another status / a network error ("unavailable")
\*   decoded whether image.Decode succeeds, and then the intrinsic size iw x ih
\*   parses  whether gofpdf's RegisterImageOptionsReader can read the bytes
Fetch(url) ==
    CASE url = UWide -> [status |-> 200, decoded |-> TRUE, iw |-> 1200, ih |-> 800, parses |-> TRUE]
      [] url = UTall -> [status |-> 200, decoded |-> TRUE, iw |-> 600, ih |-> 900, parses |-> TRUE]
      [] url = ULogo -> [status |-> 200, decoded |-> TRUE, iw |-> 512, ih |-> 512, parses |-> TRUE]
      [] url = UHtml -> [status |-> 200, decoded |-> FALSE, iw |-> 0, ih |-> 0, parses |-> FALSE]
      [] url = UTrunc -> [status |-> 200, decoded |-> FALSE, iw |-> 0, ih |-> 0, parses |-> TRUE]
      [] OTHER -> [status |-> 404, decoded |-> FALSE, iw |-> 0, ih |-> 0, parses |-> FALSE]

(* ------------------------- the gofpdf document ------------------------ *)

Box(x, y, w, h) ==
    [x |-> x, y |-> y, w |-> w, h |-> h]

NoBox ==
    Box(0, 0, 0, 0)

\* a rectangle with rational coordinates x/den, y/den, w/den, h/den
Rect(x, y, w, h, den) ==
    [x |-> x, y |-> y, w |-> w, h |-> h, den |-> den]

NoRect ==
    Rect(0, 0, 0, 0, 1)

CoreFonts ==
    {"Arial"}

\* gofpdf.New("P", "mm", "A4", ""): no page, no custom font, no error
\* names is the list of the image names registered, one per placement
NewDoc ==
    [fonts |-> {}, font |-> "", err |-> "", pages |-> <<>>, nums |-> <<>>, ops |-> <<>>,
     names |-> <<>>]

Emit(d, k, role, txt, url, st, box, rect) ==
    [d EXCEPT !.ops = Append(@, [k |-> k, role |-> role, txt |-> txt, font |-> d.font,
                                  url |-> url, st |-> st, box |-> box, rect |-> rect,
                                  pg |-> Len(d.pages)])]

\* AddPage leaving out the gallery page: the page skipped when it has nothing to show
AddPageSkipping(d, kind) ==
    IF kind = "Investment" THEN d ELSE [d EXCEPT !.pages = Append(@, kind)]

\* pdf.AddPage()
AddPage(d, kind) ==
    [d EXCEPT !.pages = Append(@, kind)]

\* pdf.SetFont(family, ...): a family that is neither a core font nor added to
\* this document sets the document's error
SetFont(d, family) ==
    [d EXCEPT !.font = family,
              !.err = IF @ = "" /\ family \notin (CoreFonts \cup d.fonts) THEN "font" ELSE @]

\* pdf.CellFormat / pdf.MultiCell with a text, at (x, y)
Text(d, role, txt, x, y) ==
    Emit(d, "text", role, txt, NoUrl, "", Box(x, y, 0, 0), NoRect)

\* the light-gray pdf.Rect drawn where an image is missing
Placeholder(d, role, box) ==
    Emit(d, "placeholder", role, <<>>, NoUrl, "", box, NoRect)

addPageNumber(d, pageNum) ==
    [SetFont(d, "Arial") EXCEPT !.nums = Append(@, pageNum)]

addSectionHeader(d, role, title, y) ==
    Emit(SetFont(d, "Arial"), "header", role, title, NoUrl, "", Box(marginX, y, contentWidth, 100), NoRect)

addSectionHeaderWithIcon(d, role, title, y) ==
    Emit(SetFont(d, "Arial"), "header", role, title, NoUrl, "", Box(marginX, y, contentWidth, 100), NoRect)

addSectionHeaderAligned(d, role, title, y, fontName) ==
    Emit(SetFont(d, IF fontName # "" THEN fontName ELSE "Arial"), "header", role, title,
         NoUrl, "", Box(marginX, y, contentWidth, 100), NoRect)

\* every section header returns y + 15
HeaderHeight == 150

(* --------------------------- image pipeline --------------------------- *)

RECURSIVE GCD(_, _)
GCD(a, b) ==
    IF b = 0 THEN a ELSE GCD(b, a % b)

\* placement without aspect correction: the image stretched over the box
AspectFitStretched(box, imgW, imgH) ==
    LET g == GCD(imgW, imgH)
        den == 2 * (imgW \div g) * (imgH \div g)
    IN  Rect(box.x * den, box.y * den, box.w * den, box.h * den, den)

\* The aspect-fit of addImageFromURL.  scale = w/imgW, replaced by h/imgH when
\* imgH*scale > h; the rectangle imgW*scale x imgH*scale is centred in the box.
\* With rw:rh the reduced ratio imgW:imgH the result is exact over den = 2*rw*rh.
AspectFit(box, imgW, imgH) ==
    LET g == GCD(imgW, imgH)
        rw == imgW \div g
        rh == imgH \div g
        den == 2 * rw * rh
        byWidth == ~(rh * box.w > box.h * rw)
        drawW == IF byWidth THEN box.w * den ELSE 2 * rw * rw * box.h
        drawH == IF byWidth THEN 2 * rh * rh * box.w ELSE box.h * den
    IN  Rect(box.x * den + (box.w * den - drawW) \div 2,
             box.y * den + (box.h * den - drawH) \div 2,
             drawW, drawH, den)

\* the rectangle handed to pdf.ImageOptions: the box itself when decoding fails
\* or a dimension is not positive
PlacedRect(box, r) ==
    IF r.decoded /\ r.iw > 0 /\ r.ih > 0
    THEN AspectFit(box, r.iw, r.ih)
    ELSE Rect(box.x, box.y, box.w, box.h, 1)

\* fmt.Sprintf("%.0f", v) of the length v = n / (10 * den) mm, as a number
Millimetres(n, den) ==
    LET q == n \div (10 * den)
        r == n % (10 * den)
    IN  IF 2 * r > 10 * den \/ (2 * r = 10 * den /\ q % 2 = 1) THEN q + 1 ELSE q

\* fmt.Sprintf("img_%s_%.0f_%.0f", urlSuffix, x, y): the last 20 bytes of the
\* URL and the corner of the fitted rectangle in whole millimetres
uniqueName(url, rect) ==
    <<url.tail, Millimetres(rect.x, rect.den), Millimetres(rect.y, rect.den)>>

\* addImageFromURL: [doc, err].  err is the returned error (download failed);
\* a fetched image is registered and placed, and bytes gofpdf cannot parse set
\* the document's error without any error being returned.
addImageFromURL(d, role, url, box) ==
    LET r == Fetch(url) IN
    IF r.status # 200
    THEN [doc |-> Emit(d, "image", role, <<>>, url, "unavailable", box, NoRect), err |-> TRUE]
    ELSE LET rect == PlacedRect(box, r) IN
         [doc |-> [Emit(d, "image", role, <<>>, url, "placed", box, rect)
                     EXCEPT !.err = IF @ = "" /\ ~r.parses THEN "image" ELSE @,
                            !.names = Append(@, uniqueName(url, rect))],
          err |-> FALSE]


(* --------------------------- formatting helpers ----------------------- *)

RECURSIVE Digits(_)
Digits(n) ==
    IF n < 10 THEN <<48 + n>> ELSE Append(Digits(n \div 10), 48 + (n % 10))

\* fmt.Sprintf("%.0f", price), price in hundredths: the nearest integer, an
\* exact half going to the even neighbour
Sprintf0f(price) ==
    LET abs == IF price < 0 THEN 0 - price ELSE price
        q == abs \div 100
        r == abs % 100
        n == IF r > 50 \/ (r = 50 /\ q % 2 = 1) THEN q + 1 ELSE q
    IN  IF price < 0 THEN <<45>> \o Digits(n) ELSE Digits(n)

RECURSIVE SeparatedFromLeft(_, _)
\* the loop with the groups of three counted from the first character
SeparatedFromLeft(priceStr, i) ==
    IF i = 0 THEN <<>>
    ELSE LET j == i - 1 IN
         SeparatedFromLeft(priceStr, j)
            \o (IF j > 0 /\ j % 3 = 0 THEN <<44>> ELSE <<>>)
            \o <<priceStr[i]>>

RECURSIVE Separated(_, _)
\* the loop of formatPrice up to (0-based) index i-1: a comma goes before the
\* character at index j when j > 0 and (len - j) % 3 = 0
Separated(priceStr, i) ==
    IF i = 0 THEN <<>>
    ELSE LET j == i - 1 IN
         Separated(priceStr, j)
            \o (IF j > 0 /\ (Len(priceStr) - j) % 3 = 0 THEN <<44>> ELSE <<>>)
            \o <<priceStr[i]>>

formatPrice(price, currency) ==
    LET cur == IF currency = <<>> THEN <<85, 83, 68>> ELSE currency
        priceStr == Sprintf0f(price)
    IN  cur \o <<32>> \o (IF Len(priceStr) > 3 THEN Separated(priceStr, Len(priceStr)) ELSE priceStr)

RECURSIVE Join(_)
\* strings.Join(parts, ", ")
Join(parts) ==
    IF parts = <<>> THEN <<>>
    ELSE IF Len(parts) = 1 THEN parts[1]
    ELSE parts[1] \o <<44, 32>> \o Join(Tail(parts))

\* "Location not specified"
LocationNotSpecified ==
    <<76,111,99,97,116,105,111,110,32,110,111,116,32,115,112,101,99,105,102,105,101,100>>

\* the four fields joined whether empty or not
formatLocationAllFields(property) ==
    Join(<<property.Address, property.City, property.State, property.ZipCode>>)

formatLocation(property) ==
    LET opt(f) == IF f # <<>> THEN <<f>> ELSE <<>>
        parts == opt(property.Address) \o opt(property.City) \o opt(property.State)
                    \o opt(property.ZipCode)
    IN  IF Len(parts) = 0 THEN LocationNotSpecified ELSE Join(parts)

(* ------------------------------ PDFService ---------------------------- *)

\* NewPDFService: only the branding logo URL is set
NewPDFService(logoURL) ==
    [arabicFontName |-> "", hasArabicFont |-> FALSE, brandLogoURL |-> logoURL,
     bodyFontName |-> "", hasBodyFont |-> FALSE]

\* setupFonts: [svc, doc].  e.arabic / e.body say whether os.Stat finds the font
\* file.  The fields of the service are only ever set, never cleared.
setupFonts(s, e, d) ==
    LET s1 == IF e.arabic
              THEN [s EXCEPT !.arabicFontName = "ArabicFont", !.hasArabicFont = TRUE]
              ELSE s
        d1 == IF e.arabic THEN [d EXCEPT !.fonts = @ \cup {"ArabicFont"}] ELSE d
        s2 == IF e.body
              THEN [s1 EXCEPT !.bodyFontName = "BodyFont", !.hasBodyFont = TRUE]
              ELSE s1
        d2 == IF e.body THEN [d1 EXCEPT !.fonts = @ \cup {"BodyFont"}] ELSE d1
        s3 == IF ~s2.hasBodyFont /\ s2.hasArabicFont
              THEN [s2 EXCEPT !.bodyFontName = s2.arabicFontName, !.hasBodyFont = TRUE]
              ELSE s2
    IN  [svc |-> s3, doc |-> d2]

\* the fields of the service setupFonts writes and reads, given what it finds
setupFontsWrites(s, e) ==
    (IF e.arabic THEN {"arabicFontName", "hasArabicFont"} ELSE {})
    \cup (IF e.body THEN {"bodyFontName", "hasBodyFont"} ELSE {})
    \cup (IF ~e.body /\ ~s.hasBodyFont /\ (e.arabic \/ s.hasArabicFont)
          THEN {"bodyFontName", "hasBodyFont"} ELSE {})

setupFontsReads(s, e) ==
    {"hasBodyFont"}
    \cup (IF ~e.body /\ ~s.hasBodyFont THEN {"hasArabicFont"} ELSE {})
    \cup (IF ~e.body /\ ~s.hasBodyFont /\ (e.arabic \/ s.hasArabicFont)
          THEN {"arabicFontName"} ELSE {})

LogoBox ==
    Box(pageWidth - marginX - 180, 60, 180, 180)

\* addBrandingIfAvailable: the returned error is discarded
addBrandingIfAvailable(s, d) ==
    IF s.brandLogoURL = NoUrl THEN d
    ELSE addImageFromURL(d, "logo", s.brandLogoURL, LogoBox).doc

\* the font choices that recur in the composer
ArabicOrArial(s) ==
    IF s.hasArabicFont THEN s.arabicFontName ELSE "Arial"

BodyOrArial(s) ==
    IF s.hasBodyFont THEN s.bodyFontName ELSE "Arial"

(* ------------------------------ page 1 -------------------------------- *)

HeroBox ==
    Box(marginX, 260, contentWidth, 1550)

\* the hero image of both cover pages (part_006:1058-1086, 2364-2389)
HeroImage(d, property) ==
    IF Len(property.ImageURLs) > 0
    THEN LET r == addImageFromURL(d, "hero", property.ImageURLs[1], HeroBox) IN
         IF r.err
         THEN Text(SetFont(Placeholder(r.doc, "hero", HeroBox), "Arial"),
                   "imageNote", Lit.ImageNotAvailable, marginX, 260 + 775)
         ELSE r.doc
    ELSE Text(SetFont(Placeholder(d, "hero", HeroBox), "Arial"),
              "imageNote", Lit.NoImageAvailable, marginX, 260 + 775)

\* price and location lines, shared by both cover pages
PriceAndLocation(d, property) ==
    LET d1 == Text(SetFont(d, "Arial"), "price",
                   formatPrice(property.Price, property.Currency), marginX, 0)
    IN  Text(SetFont(d1, "Arial"), "location", formatLocation(property), marginX, 0)

addCoverPage(s, d, property) ==
    LET d1 == addBrandingIfAvailable(s, AddPage(d, "Cover"))
        d2 == Text(SetFont(d1, "Arial"), "heading", Lit.PropertyBrochureEn, marginX, 100)
        d3 == HeroImage(d2, property)
        d4 == Text(SetFont(d3, "Arial"), "title", property.Title, marginX, 1860)
    IN  addPageNumber(PriceAndLocation(d4, property), 1)

\* the title of the Arabic cover page (part_006:2400-2405)
ArabicCoverTitle(property) ==
    IF property.ArabicContent.Title # <<>>
    THEN fixMojibakeLatin1ToUTF8(property.ArabicContent.Title)
    ELSE property.Title

addCoverPageArabic(s, d, property) ==
    LET d1 == addBrandingIfAvailable(s, AddPage(d, "Cover"))
        d2 == Text(SetFont(d1, ArabicOrArial(s)), "heading",
                   fixMojibakeLatin1ToUTF8(Lit.PropertyBrochureAr), marginX, 100)
        d3 == HeroImage(d2, property)
        d4 == Text(SetFont(d3, ArabicOrArial(s)), "title", ArabicCoverTitle(property),
                   marginX, 1860)
    IN  addPageNumber(PriceAndLocation(d4, property), 1)


(* ------------------------------ page 2 -------------------------------- *)

Content(descLabel, highlightsLabel, amenitiesLabel, description, highlights, amenities) ==
    [descLabel |-> descLabel, highlightsLabel |-> highlightsLabel,
     amenitiesLabel |-> amenitiesLabel, description |-> description,
     highlights |-> highlights, amenities |-> amenities]

\* the resolver without its last fallback
WithoutPlaceholder(c, placeholder) ==
    c

OrPlaceholder(c, placeholder) ==
    IF c.description = <<>> THEN [c EXCEPT !.description = placeholder] ELSE c

\* what addEnglishDetailsContent draws from (part_006:1177-1200)
EnglishDetails(property) ==
    LET loc == property.EnglishContent
        ai == property.AIContent
    IN  OrPlaceholder(
          IF loc.Description # <<>>
          THEN Content(loc.PropertyDescriptionLabel, loc.KeyHighlightsLabel,
                       loc.AmenitiesLabel, loc.Description, loc.Highlights, loc.Amenities)
          ELSE Content(Lit.DescLabelEn, Lit.HighlightsLabelEn, Lit.AmenitiesLabelEn,
                       IF ai.EnglishDescription # <<>> THEN ai.EnglishDescription
                                                       ELSE property.Description,
                       ai.KeyHighlights, property.Amenities),
          Lit.NoDescriptionEn)

\* what addArabicDetailsContent draws from (part_006:1303-1323)
ArabicDetails(property) ==
    LET loc == property.ArabicContent
        ai == property.AIContent
    IN  OrPlaceholder(
          IF loc.Description # <<>>
          THEN Content(loc.PropertyDescriptionLabel, loc.KeyHighlightsLabel,
                       loc.AmenitiesLabel, loc.Description, loc.Highlights, loc.Amenities)
          ELSE Content(Lit.DescLabelAr, Lit.HighlightsLabelAr, Lit.AmenitiesLabelAr,
                       ai.ArabicDescription, <<>>, property.Amenities),
          Lit.NoDescriptionAr)

\* the threshold of the amenities block: the cursor is clamped to 220 mm
AmenitiesClampY == 2200
\* row height of the amenities grid
amenityHeight == 70

colWidth ==
    (contentWidth - 100) \div 2

Cur(d, y) ==
    [doc |-> d, y |-> y]

RECURSIVE HighlightsLoop(_, _, _, _, _, _)
\* the loop over highlights: font is the text font, fix whether the mojibake
\* repair is applied (Arabic), each highlight takes `lines` lines of 6 mm
HighlightsLoop(c, highlights, font, fix, x, lines) ==
    IF highlights = <<>> THEN c
    ELSE LET s1 == sanitizeBulletText(Head(highlights))
             highlight == IF fix THEN fixMojibakeLatin1ToUTF8(s1) ELSE s1
             d1 == Text(SetFont(c.doc, font), "highlight", highlight, x, c.y)
         IN  HighlightsLoop(Cur(d1, c.y + lines * 60 + 10), Tail(highlights), font, fix, x, lines)

RECURSIVE AmenitiesLoop(_, _, _, _, _)
\* the two-column grid: item i (0-based) goes to column i % 2, and the cursor
\* moves down one row after each item of column 1
AmenitiesLoop(c, amenities, i, font, fix) ==
    IF i >= Len(amenities) THEN c
    ELSE LET col == i % 2
             xPos == marginX + col * (colWidth + 100)
             raw == amenities[i + 1]
             amenity == IF fix THEN fixMojibakeLatin1ToUTF8(raw) ELSE raw
             d1 == Text(SetFont(c.doc, font), "amenity", amenity, xPos + 90, c.y)
         IN  AmenitiesLoop(Cur(d1, IF col = 1 THEN c.y + amenityHeight ELSE c.y),
                           amenities, i + 1, font, fix)

\* the grid without the extra row for an odd number of items
AmenitiesGridEvenOnly(c, amenities, font, fix) ==
    AmenitiesLoop(c, amenities, 0, font, fix)

AmenitiesGrid(c, amenities, font, fix) ==
    LET c1 == AmenitiesLoop(c, amenities, 0, font, fix) IN
    IF Len(amenities) % 2 = 1 THEN Cur(c1.doc, c1.y + amenityHeight) ELSE c1

\* addEnglishDetailsContent: [doc, y], the document and *currentY after it
addEnglishDetailsContent(s, d, property, currentY, wrap) ==
    LET r == EnglishDetails(property)
        d1 == addSectionHeader(d, "descHeader", r.descLabel, currentY)
        y1 == currentY + HeaderHeight
        d2 == Text(SetFont(d1, BodyOrArial(s)), "description", r.description, marginX, y1)
        c2 == Cur(d2, y1 + wrap.desc * 55 + 80)
        c3 == IF Len(r.highlights) > 0
              THEN LET h == addSectionHeader(c2.doc, "highlightsHeader", r.highlightsLabel, c2.y)
                       l == HighlightsLoop(Cur(SetFont(h, "Arial"), c2.y + HeaderHeight),
                                           r.highlights, "Arial", FALSE, marginX + 120, wrap.hl)
                   IN  Cur(l.doc, l.y + 60)
              ELSE c2
    IN  IF Len(r.amenities) > 0
        THEN LET y4 == IF c3.y > AmenitiesClampY THEN AmenitiesClampY ELSE c3.y
                 h == addSectionHeader(c3.doc, "amenitiesHeader", r.amenitiesLabel, y4)
             IN  AmenitiesGrid(Cur(SetFont(h, "Arial"), y4 + HeaderHeight), r.amenities,
                               BodyOrArial(s), FALSE)
        ELSE c3

\* a section header of the Arabic pages: right-aligned in the Arabic font when
\* the service has one, the plain header otherwise
ArabicHeader(s, d, role, title, y) ==
    IF s.hasArabicFont
    THEN addSectionHeaderAligned(d, role, title, y, s.arabicFontName)
    ELSE addSectionHeader(d, role, title, y)

\* addArabicDetailsContent: [doc, y]
addArabicDetailsContent(s, d, property, currentY, wrap) ==
    LET r == ArabicDetails(property)
        d1 == ArabicHeader(s, d, "descHeader", r.descLabel, currentY)
        y1 == currentY + HeaderHeight
        d2 == Text(SetFont(d1, ArabicOrArial(s)), "description",
                   fixMojibakeLatin1ToUTF8(r.description), marginX, y1)
        c2 == Cur(d2, y1 + wrap.desc * 60 + 80)
        c3 == IF Len(r.highlights) > 0
              THEN LET h == ArabicHeader(s, c2.doc, "highlightsHeader", r.highlightsLabel, c2.y)
                       l == HighlightsLoop(Cur(SetFont(h, ArabicOrArial(s)), c2.y + HeaderHeight),
                                           r.highlights, ArabicOrArial(s), TRUE, marginX, wrap.hl)
                   IN  Cur(l.doc, l.y + 60)
              ELSE c2
    IN  IF Len(r.amenities) > 0
        THEN LET y4 == IF c3.y > AmenitiesClampY THEN AmenitiesClampY ELSE c3.y
                 h == ArabicHeader(s, c3.doc, "amenitiesHeader", r.amenitiesLabel, y4)
             IN  AmenitiesGrid(Cur(SetFont(h, ArabicOrArial(s)), y4 + HeaderHeight),
                               r.amenities, ArabicOrArial(s), TRUE)
        ELSE c3

addDetailsPageOnly(s, d, property, isArabic, wrap) ==
    LET d1 == addBrandingIfAvailable(s, AddPage(d, "Details"))
        currentY == marginY + 100
        c == IF isArabic
             THEN addArabicDetailsContent(s, d1, property, currentY, wrap)
             ELSE addEnglishDetailsContent(s, d1, property, currentY, wrap)
    IN  addPageNumber(c.doc, 2)


(* ------------------------------ page 3 -------------------------------- *)

\* title and text of the investment section (part_006:1458-1477)
Investment(property, isArabic) ==
    IF isArabic
    THEN LET loc == property.ArabicContent
             t == IF loc.AdditionalSectionTitle # <<>>
                  THEN <<loc.AdditionalSectionTitle, loc.AdditionalSectionContent>>
                  ELSE <<Lit.InvestmentTitleAr, Lit.InvestmentTextAr>>
         IN  [title |-> fixMojibakeLatin1ToUTF8(t[1]), content |-> fixMojibakeLatin1ToUTF8(t[2])]
    ELSE LET loc == property.EnglishContent IN
         IF loc.AdditionalSectionTitle # <<>>
         THEN [title |-> loc.AdditionalSectionTitle, content |-> loc.AdditionalSectionContent]
         ELSE [title |-> Lit.InvestmentTitleEn, content |-> Lit.InvestmentTextEn]

\* the gallery header label (part_006:1504-1516)
GalleryLabel(property, isArabic) ==
    IF isArabic
    THEN fixMojibakeLatin1ToUTF8(
            IF property.ArabicContent.PropertyGalleryLabel # <<>>
            THEN property.ArabicContent.PropertyGalleryLabel ELSE Lit.GalleryLabelAr)
    ELSE IF property.EnglishContent.PropertyGalleryLabel # <<>>
         THEN property.EnglishContent.PropertyGalleryLabel ELSE Lit.GalleryLabelEn

\* gallery cell: (contentWidth - 8) / 2 wide, 0.65 of that high, 8 mm apart
imgWidth ==
    (contentWidth - 80) \div 2

imgHeight ==
    (imgWidth * 65) \div 100

spacing == 80
maxImages == 4
\* a slot is placed only if yPos + imgHeight <= pageHeight - 35
GalleryBottom == 350

\* one slot of the gallery: the frame, the image, and the placeholder when the
\* image is unavailable (part_006:1545-1563)
GallerySlot(d, url, xPos, yPos) ==
    LET box == Box(xPos + 20, yPos + 20, imgWidth - 40, imgHeight - 40)
        f == Emit(d, "frame", "gallery", <<>>, NoUrl, "", Box(xPos, yPos, imgWidth, imgHeight), NoRect)
        r == addImageFromURL(f, "gallery", url, box)
    IN  IF r.err THEN Placeholder(r.doc, "gallery", box) ELSE r.doc

RECURSIVE GalleryLoopNoBreak(_, _, _, _, _)
\* the loop without the test for the space left on the page
GalleryLoopNoBreak(d, urls, i, imageCount, currentY) ==
    IF ~(i < Len(urls) /\ imageCount < maxImages) THEN d
    ELSE LET xPos == marginX + (imageCount % 2) * (imgWidth + spacing)
             yPos == currentY + (imageCount \div 2) * (imgHeight + spacing)
         IN  GalleryLoopNoBreak(GallerySlot(d, urls[i + 1], xPos, yPos), urls, i + 1,
                                imageCount + 1, currentY)

RECURSIVE GalleryLoopCompacting(_, _, _, _, _)
\* the loop counting only the images that could be downloaded, so that the
\* image after a failed one takes its slot
GalleryLoopCompacting(d, urls, i, imageCount, currentY) ==
    IF ~(i < Len(urls) /\ imageCount < maxImages) THEN d
    ELSE LET xPos == marginX + (imageCount % 2) * (imgWidth + spacing)
             yPos == currentY + (imageCount \div 2) * (imgHeight + spacing)
         IN  IF yPos + imgHeight > pageHeight - GalleryBottom THEN d
             ELSE GalleryLoopCompacting(GallerySlot(d, urls[i + 1], xPos, yPos), urls, i + 1,
                                        IF Fetch(urls[i + 1]).status = 200 THEN imageCount + 1 ELSE imageCount,
                                        currentY)

RECURSIVE GalleryLoop(_, _, _, _, _)
\* for i := 1; i < len(ImageURLs) && imageCount < maxImages; i++
GalleryLoop(d, urls, i, imageCount, currentY) ==
    IF ~(i < Len(urls) /\ imageCount < maxImages) THEN d
    ELSE LET row == imageCount \div 2
             col == imageCount % 2
             xPos == marginX + col * (imgWidth + spacing)
             yPos == currentY + row * (imgHeight + spacing)
         IN  IF yPos + imgHeight > pageHeight - GalleryBottom THEN d
             ELSE GalleryLoop(GallerySlot(d, urls[i + 1], xPos, yPos), urls, i + 1,
                              imageCount + 1, currentY)

addInvestmentAndGalleryPage(s, d, property, isArabic, wrap) ==
    LET d1 == addBrandingIfAvailable(s, AddPage(d, "Investment"))
        y0 == marginY + 100
        a == Investment(property, isArabic)
        c1 == IF a.content # <<>>
              THEN LET h == IF isArabic /\ s.hasArabicFont
                            THEN SetFont(addSectionHeaderAligned(d1, "investmentHeader", a.title,
                                                                 y0, s.arabicFontName),
                                         s.arabicFontName)
                            ELSE SetFont(addSectionHeaderWithIcon(d1, "investmentHeader", a.title, y0),
                                         BodyOrArial(s))
                   IN  Cur(Text(h, "investmentText", a.content, marginX, y0 + HeaderHeight),
                           y0 + HeaderHeight + wrap.add * 55 + 120)
              ELSE Cur(d1, y0)
        d2 == IF Len(property.ImageURLs) > 1
              THEN LET label == GalleryLabel(property, isArabic)
                       h == IF isArabic /\ s.hasArabicFont
                            THEN addSectionHeaderAligned(c1.doc, "galleryHeader", label, c1.y,
                                                         s.arabicFontName)
                            ELSE addSectionHeaderWithIcon(c1.doc, "galleryHeader", label, c1.y)
                   IN  GalleryLoop(h, property.ImageURLs, 1, 0, c1.y + HeaderHeight + 30)
              ELSE c1.doc
    IN  addPageNumber(d2, 3)

(* ------------------------------ page 4 -------------------------------- *)

\* the labels of the agent card (part_006:2095-2118)
AgentLabels(property, useArabic) ==
    IF useArabic /\ property.ArabicContent.AgentLabel # <<>>
    THEN [agent |-> property.ArabicContent.AgentLabel, name |-> Lit.NameLabelAr,
          email |-> Lit.EmailLabelAr, phone |-> Lit.PhoneLabelAr]
    ELSE IF ~useArabic /\ property.EnglishContent.AgentLabel # <<>>
    THEN [agent |-> property.EnglishContent.AgentLabel, name |-> Lit.NameLabelEn,
          email |-> Lit.EmailLabelEn, phone |-> Lit.PhoneLabelEn]
    ELSE [agent |-> Lit.ContactYourAgent, name |-> Lit.NameLabelEn,
          email |-> Lit.EmailLabelEn, phone |-> Lit.PhoneLabelEn]

cardHeight == 550

\* addAgentContactCardTop; the card ends at startY + cardHeight
addAgentContactCardTop(s, d, property, startY, useArabic) ==
    LET l == AgentLabels(property, useArabic)
        labelFont == IF useArabic /\ s.hasArabicFont THEN s.arabicFontName ELSE "Arial"
        nameFont == IF s.hasBodyFont /\ ~useArabic THEN s.bodyFontName
                    ELSE IF useArabic /\ s.hasArabicFont THEN s.arabicFontName ELSE "Arial"
        d1 == Text(SetFont(d, labelFont), "agentLabel",
                   fixMojibakeLatin1ToUTF8(l.agent), marginX + 50, startY + 50)
        d2 == Text(SetFont(d1, labelFont), "nameLabel",
                   fixMojibakeLatin1ToUTF8(l.name), marginX + 100, startY + 180)
        d3 == Text(SetFont(d2, nameFont), "agentName", property.AgentInfo.Name,
                   marginX + 600, startY + 180)
        d4 == Text(SetFont(d3, labelFont), "emailLabel",
                   fixMojibakeLatin1ToUTF8(l.email), marginX + 100, startY + 280)
        d5 == Text(SetFont(d4, "Arial"), "agentEmail", property.AgentInfo.Email,
                   marginX + 600, startY + 280)
        d6 == Text(SetFont(d5, labelFont), "phoneLabel",
                   fixMojibakeLatin1ToUTF8(l.phone), marginX + 100, startY + 380)
    IN  Text(SetFont(d6, "Arial"), "agentPhone", property.AgentInfo.Phone,
             marginX + 600, startY + 380)

\* the closing message (part_006:2189-2204)
ThankYou(property, useArabic) ==
    IF useArabic /\ property.ArabicContent.ThankYouMessage # <<>>
    THEN property.ArabicContent.ThankYouMessage
    ELSE IF ~useArabic /\ property.EnglishContent.ThankYouMessage # <<>>
    THEN property.EnglishContent.ThankYouMessage
    ELSE IF useArabic THEN Lit.ThankYouAr ELSE Lit.ThankYouEn

addThankYouMessage(s, d, property, startY, useArabic) ==
    LET font == IF useArabic /\ s.hasArabicFont THEN s.arabicFontName ELSE BodyOrArial(s)
    IN  Text(SetFont(d, font), "thankYou",
             fixMojibakeLatin1ToUTF8(ThankYou(property, useArabic)), marginX, startY + 100)

addContactPageWithLanguage(s, d, property, useArabic) ==
    LET d1 == addBrandingIfAvailable(s, AddPage(d, "Contact"))
        y0 == marginY + 100
        d2 == addAgentContactCardTop(s, d1, property, y0, useArabic)
    IN  addPageNumber(addThankYouMessage(s, d2, property, y0 + cardHeight + 150, useArabic), 4)

addContactPage(s, d, property) ==
    addContactPageWithLanguage(s, d, property, FALSE)

\* page 4 of the combined brochure: the Arabic description, then the agent
\* card and the closing message (English labels) on the same page
addArabicAndContactPage(s, d, property, wrap) ==
    LET d1 == addBrandingIfAvailable(s, AddPage(d, "ArabicAndContact"))
        y0 == marginY + 100
        d2 == IF s.hasArabicFont
              THEN addSectionHeaderAligned(d1, "descHeader", Lit.DescLabelAr, y0, s.arabicFontName)
              ELSE addSectionHeader(d1, "descHeader", Lit.ArabicDescriptionHeader, y0)
        font == IF s.hasArabicFont THEN s.arabicFontName ELSE BodyOrArial(s)
        arabicDesc == IF property.AIContent.ArabicDescription = <<>>
                      THEN Lit.NoDescriptionAr ELSE property.AIContent.ArabicDescription
        d3 == Text(SetFont(d2, font), "description", fixMojibakeLatin1ToUTF8(arabicDesc),
                   marginX, y0 + HeaderHeight)
        y3 == y0 + HeaderHeight + wrap.desc * 60 + 150
        d4 == addAgentContactCardTop(s, d3, property, y3, FALSE)
    IN  addPageNumber(addThankYouMessage(s, d4, property, y3 + cardHeight + 150, FALSE), 4)


(* --------------------------- property records ------------------------- *)

\* models.LocalizedContent, the fields the composer reads
Loc(title, desc, hls, ams, amL, agL, dL, hlL, gL, addT, addC, ty) ==
    [Title |-> title, Description |-> desc, Highlights |-> hls, Amenities |-> ams,
     AmenitiesLabel |-> amL, AgentLabel |-> agL, PropertyDescriptionLabel |-> dL,
     KeyHighlightsLabel |-> hlL, PropertyGalleryLabel |-> gL, AdditionalSectionTitle |-> addT,
     AdditionalSectionContent |-> addC, ThankYouMessage |-> ty]

\* the zero value: localized content was not generated
NoContent ==
    Loc(<<>>, <<>>, <<>>, <<>>, <<>>, <<>>, <<>>, <<>>, <<>>, <<>>, <<>>, <<>>)

FullEn ==
    Loc(Sample.TitleLocEn, Sample.DescLocEn, <<Sample.HlPool, Sample.HlGym>>, <<Sample.AmPool, Sample.AmGym, Sample.AmSpa>>, Sample.LblAmen, Sample.LblAgent,
        Sample.LblDesc, Sample.LblHigh, Sample.LblGallery, Sample.AddTitle, Sample.AddText, Sample.ThanksLoc)

FullAr ==
    Loc(Sample.TitleLocAr, Sample.DescLocAr, <<Sample.HlPoolAr>>, <<Sample.AmPoolAr, Sample.AmGymAr>>, Sample.LblAmenAr, Sample.LblAgentAr,
        Sample.LblDescAr, Sample.LblHighAr, Sample.LblGalleryAr, Sample.AddTitleAr, Sample.AddTextAr, Sample.ThanksLocAr)

\* a description and lists, every label left empty
BareEn ==
    Loc(Sample.TitleLocEn, Sample.DescLocEn, <<Sample.HlGym>>, <<Sample.AmPool>>, <<>>, <<>>, <<>>, <<>>, <<>>, <<>>, <<>>, <<>>)

BareAr ==
    Loc(<<>>, Sample.DescLocArGarbled, <<Sample.HlPoolAr>>, <<Sample.AmPoolAr>>, <<>>, <<>>, <<>>, <<>>, <<>>, <<>>, <<>>, <<>>)

\* labels and titles but no description; the additional section has a title only
LabelsEn ==
    Loc(Sample.TitleLocEn, <<>>, <<Sample.HlPool>>, <<Sample.AmSpa>>, Sample.LblAmen, Sample.LblAgent, Sample.LblDesc, Sample.LblHigh,
        Sample.LblGallery, Sample.AddTitle, <<>>, Sample.ThanksLoc)

LabelsAr ==
    Loc(Sample.TitleLocAr, <<>>, <<Sample.HlPoolAr>>, <<Sample.AmGymAr>>, Sample.LblAmenAr, Sample.LblAgentAr, Sample.LblDescAr, Sample.LblHighAr,
        Sample.LblGalleryAr, Sample.AddTitleAr, <<>>, Sample.ThanksLocAr)

\* Arabic content that arrives mis-decoded: description and section labels
GarbledAr ==
    Loc(Sample.TitleLocAr, Sample.DescLocArGarbled, <<Sample.HlPoolAr>>, <<Sample.AmPoolAr>>,
        Sample.DescLocArGarbled, Sample.LblAgentAr, Sample.DescLocArGarbled,
        Sample.DescLocArGarbled, Sample.LblGalleryAr, Sample.AddTitleAr, Sample.AddTextAr,
        Sample.ThanksLocAr)

LocalizedPairs ==
    { <<NoContent, NoContent>>, <<FullEn, FullAr>>, <<BareEn, BareAr>>, <<LabelsEn, LabelsAr>>,
      <<FullEn, GarbledAr>> }

\* models.AIContent
AI(en, ar, highlights) ==
    [EnglishDescription |-> en, ArabicDescription |-> ar, KeyHighlights |-> highlights]

\* description, legacy AI content and amenities
LegacyTriples ==
    { <<<<>>, AI(<<>>, <<>>, <<>>), <<>>>>,
      <<Sample.DescUser, AI(<<>>, <<>>, <<>>), <<Sample.AmPool, Sample.AmGym, Sample.AmSpa, Sample.AmBar, Sample.AmLift>>>>,
      <<<<>>, AI(Sample.DescAIEn, Sample.DescAIAr, <<Sample.HlAI, Sample.HlGym>>), <<Sample.AmPool, Sample.AmGym, Sample.AmSpa, Sample.AmBar>>>> }

ImageLists ==
    { <<>>, <<UTrunc>>, <<UGone, UTall>>, <<UWide, UGone, UTall>>,
      <<UTall, UWide, UHtml, UGone, UTrunc, UWide>> }

\* "Dollar"
Dollar ==
    <<68, 111, 108, 108, 97, 114>>

Property(legacy, pair, images) ==
    [Title |-> Sample.TitleUser, Description |-> legacy[1], Price |-> 55000000, Currency |-> Dollar,
     Address |-> <<49, 32, 77, 97, 105, 110>>, City |-> <<79, 115, 108, 111>>,
     State |-> <<>>, ZipCode |-> <<48, 49, 53, 48>>,
     Amenities |-> legacy[3], ImageURLs |-> images,
     AgentInfo |-> [Name |-> <<65, 110, 110>>, Email |-> <<97, 64, 98, 46, 99>>,
                    Phone |-> <<53, 53, 53>>],
     AIContent |-> legacy[2], EnglishContent |-> pair[1], ArabicContent |-> pair[2]]

DefaultImages ==
    <<UWide, UGone, UTall>>

\* every content combination with the default images, and every image list
\* with legacy-only and with fully localized content
Properties ==
    { Property(l, p, DefaultImages) : l \in LegacyTriples, p \in LocalizedPairs }
    \cup { Property(l, p, i) : l \in {<<Sample.DescUser, AI(<<>>, <<>>, <<>>), <<Sample.AmPool, Sample.AmGym, Sample.AmSpa, Sample.AmBar, Sample.AmLift>>>>},
                                p \in {<<NoContent, NoContent>>, <<FullEn, FullAr>>},
                                i \in ImageLists }

\* the records of the runs with overlapping calls
FewProperties ==
    { Property(<<Sample.DescUser, AI(<<>>, <<>>, <<>>), <<Sample.AmPool, Sample.AmGym>>>>, <<FullEn, FullAr>>, <<UWide, UGone>>) }

NoProperty ==
    Property(<<<<>>, AI(<<>>, <<>>, <<>>), <<>>>>, <<NoContent, NoContent>>, <<>>)

(* --------------------------- generation calls ------------------------- *)

Calls ==
    1..NumCalls

Variants ==
    {"english", "arabic", "combined"}

Envs ==
    [arabic : BOOLEAN, body : BOOLEAN]

Wrap(desc, hl, add) ==
    [desc |-> desc, hl |-> hl, add |-> add]

Idle ==
    [pc |-> "idle", variant |-> "", property |-> NoProperty, doc |-> NewDoc,
     result |-> "", rd |-> {}, wr |-> {}]

NoFit ==
    [box |-> NoBox, iw |-> 0, ih |-> 0, rect |-> NoRect, done |-> FALSE]

\* no helper function under evaluation
NoPure ==
    [f |-> "", arg |-> <<>>, out |-> <<>>, done |-> FALSE]

\* no request in the handler
NoRequest ==
    [pc |-> "idle", form |-> <<>>, r |-> <<>>, i |-> 0, imageURLs |-> <<>>, aiContent |-> AI(<<>>, <<>>, <<>>),
     localizedContent |-> <<>>, property |-> NoProperty, steps |-> <<>>, status |-> 0, message |-> ""]

AllIdle ==
    \A c \in Calls : calls[c].pc = "idle"

\* the fields of the service a page reads: the logo URL, and the font flags and
\* names of the language it draws in
PageReads(s, pc, variant) ==
    LET arabic == {"hasArabicFont"} \cup (IF s.hasArabicFont THEN {"arabicFontName"} ELSE {})
        body == {"hasBodyFont"} \cup (IF s.hasBodyFont THEN {"bodyFontName"} ELSE {})
    IN  {"brandLogoURL"}
        \cup (CASE pc = "cover" -> IF variant = "arabic" THEN arabic ELSE {}
                [] pc = "details" -> IF variant = "arabic" THEN arabic ELSE body
                [] pc = "invest" -> IF variant = "arabic" THEN arabic \cup body ELSE body
                [] pc = "contact" -> IF variant = "english" THEN body ELSE arabic \cup body
                [] OTHER -> {})

\* Generate*Brochure up to and including setupFonts; a call takes the lowest
\* free slot (slots are interchangeable)
Start(c, variant, property) ==
    /\ calls[c].pc = "idle"
    /\ \A d \in Calls : d < c => calls[d].pc # "idle"
    /\ LET r == setupFonts(svc, env, NewDoc) IN
       /\ svc' = r.svc
       /\ calls' = [calls EXCEPT ![c] =
                       [pc |-> "cover", variant |-> variant, property |-> property,
                        doc |-> r.doc, result |-> "",
                        rd |-> setupFontsReads(svc, env), wr |-> setupFontsWrites(svc, env)]]
    /\ UNCHANGED <<env, fit, pure, req>>

Advance(c, pc, doc) ==
    /\ calls' = [calls EXCEPT ![c].pc = pc, ![c].doc = doc,
                              ![c].rd = @ \cup PageReads(svc, calls[c].pc, calls[c].variant)]
    /\ UNCHANGED <<svc, env, fit, pure, req>>

\* page 1
CoverStep(c) ==
    /\ calls[c].pc = "cover"
    /\ Advance(c, "details",
               IF calls[c].variant = "arabic"
               THEN addCoverPageArabic(svc, calls[c].doc, calls[c].property)
               ELSE addCoverPage(svc, calls[c].doc, calls[c].property))

\* page 2; the description wraps to some number of lines out of L
DetailsStep(c, L) ==
    /\ calls[c].pc = "details"
    /\ \E desc \in L :
          Advance(c, "invest",
                  addDetailsPageOnly(svc, calls[c].doc, calls[c].property,
                                     calls[c].variant = "arabic", Wrap(desc, 1, 1)))

\* page 3; the additional section wraps to some number of lines out of L
InvestStep(c, L) ==
    /\ calls[c].pc = "invest"
    /\ \E add \in L :
          Advance(c, "contact",
                  addInvestmentAndGalleryPage(svc, calls[c].doc, calls[c].property,
                                              calls[c].variant = "arabic", Wrap(1, 1, add)))

\* page 4
ContactStep(c, L) ==
    /\ calls[c].pc = "contact"
    /\ \E desc \in L :
          Advance(c, "output",
                  CASE calls[c].variant = "english" ->
                          addContactPage(svc, calls[c].doc, calls[c].property)
                    [] calls[c].variant = "arabic" ->
                          addContactPageWithLanguage(svc, calls[c].doc, calls[c].property, TRUE)
                    [] OTHER ->
                          addArabicAndContactPage(svc, calls[c].doc, calls[c].property,
                                                  Wrap(desc, 1, 1)))

\* pdf.Output(&buf): the document's error, if any, is what it returns; writing
\* to a bytes.Buffer cannot fail
Output(d) ==
    IF d.err # "" THEN "error" ELSE "bytes"

OutputStep(c) ==
    /\ calls[c].pc = "output"
    /\ calls' = [calls EXCEPT ![c].pc = "done", ![c].result = Output(calls[c].doc)]
    /\ UNCHANGED <<svc, env, fit, pure, req>>

\* the caller takes the result; the document is garbage
Return(c) ==
    /\ calls[c].pc = "done"
    /\ calls' = [calls EXCEPT ![c] = Idle]
    /\ UNCHANGED <<svc, env, fit, pure, req>>

\* a font file appears in or disappears from fonts/, leaving them as in some e of E
FontsChange(E) ==
    /\ \E e \in E : e # env /\ env' = e
    /\ UNCHANGED <<svc, calls, fit, pure, req>>

Init ==
    /\ \E logo \in {NoUrl, ULogo, UGone} : svc = NewPDFService(logo)
    /\ env \in Envs
    /\ calls = [c \in Calls |-> Idle]
    /\ fit = NoFit
    /\ pure = NoPure
    /\ req = NoRequest

\* One request at a time, as SubmitProperty generates the English brochure and
\* then the Arabic one.  Font files are only read by setupFonts, so a change
\* during a call is the same as one after it.
Next ==
    \/ \E c \in Calls, v \in Variants, p \in Properties : AllIdle /\ Start(c, v, p)
    \/ \E c \in Calls : CoverStep(c)
    \/ \E c \in Calls : DetailsStep(c, LineCounts)
    \/ \E c \in Calls : InvestStep(c, LineCounts)
    \/ \E c \in Calls : ContactStep(c, LineCounts)
    \/ \E c \in Calls : OutputStep(c)
    \/ \E c \in Calls : Return(c)
    \/ AllIdle /\ FontsChange(Envs)

Spec ==
    Init /\ [][Next]_vars

NoFonts ==
    [arabic |-> FALSE, body |-> FALSE]

ArabicOnly ==
    [arabic |-> TRUE, body |-> FALSE]

\* a fresh process without a branding logo, before any font is installed
InitConc ==
    /\ svc = NewPDFService(NoUrl)
    /\ env = NoFonts
    /\ calls = [c \in Calls |-> Idle]
    /\ fit = NoFit
    /\ pure = NoPure
    /\ req = NoRequest

\* Requests served at once by the fiber handlers: up to NumCalls calls on the
\* one PDFService, interleaved page by page.
NextConc ==
    \/ \E c \in Calls, v \in {"english", "arabic"}, p \in FewProperties : Start(c, v, p)
    \/ \E c \in Calls : CoverStep(c)
    \/ \E c \in Calls : DetailsStep(c, {1})
    \/ \E c \in Calls : InvestStep(c, {1})
    \/ \E c \in Calls : ContactStep(c, {1})
    \/ \E c \in Calls : OutputStep(c)
    \/ \E c \in Calls : Return(c)
    \/ FontsChange({NoFonts, ArabicOnly})

SpecConc ==
    InitConc /\ [][NextConc]_vars

(* --------------------------- aspect fit alone ------------------------- *)

FitBoxes ==
    { Box(0, 0, 1700, 1000), HeroBox, LogoBox, Box(marginX + 20, 400, imgWidth - 40, imgHeight - 40) }

FitSizes ==
    { 1, 512, 800, 1200, 4000 }

InitFit ==
    /\ svc = NewPDFService(NoUrl)
    /\ env = [arabic |-> FALSE, body |-> FALSE]
    /\ calls = [c \in Calls |-> Idle]
    /\ \E box \in FitBoxes, iw \in FitSizes, ih \in FitSizes :
          fit = [box |-> box, iw |-> iw, ih |-> ih, rect |-> NoRect, done |-> FALSE]
    /\ pure = NoPure
    /\ req = NoRequest

\* the placement addImageFromURL computes for a decoded image of fit.iw x fit.ih
FitStep ==
    /\ ~fit.done
    /\ fit' = [fit EXCEPT !.done = TRUE,
                          !.rect = PlacedRect(fit.box, [decoded |-> TRUE, iw |-> fit.iw, ih |-> fit.ih])]
    /\ UNCHANGED <<svc, env, calls, pure, req>>

SpecFit ==
    InitFit /\ [][FitStep]_vars

(* ----------------------- helper functions alone ----------------------- *)

\* longest text given to a text helper
MaxLen == 3
\* longest amenity list given to the grid
MaxAmenities == 5

Texts(A) ==
    UNION { [1..n -> A] : n \in 0..MaxLen }

\* UTF-8 bytes read as Latin-1: every byte becomes the code point of its value
MisdecodedLatin1(s) ==
    LET bytes == UTF8Bytes(s) IN [i \in 1..Len(bytes) |-> bytes[i]]

\* texts of Arabic letters (feh), accented Latin letters (e acute) and ASCII (A)
\* holding at least one Arabic letter
ArabicTexts ==
    { s \in Texts({1601, 233, 65}) : HasArabicRune(s) }

\* texts over A, A tilde, the Arabic sheen and the copyright sign, and the
\* mis-decoded Arabic texts
MojibakeTexts ==
    Texts({65, 195, 1588, 169}) \cup { MisdecodedLatin1(s) : s \in ArabicTexts }

\* texts over "-", ">", " ", "x", "*" and the bullet
BulletTexts ==
    Texts({45, 62, 32, 120, 42, 8226})

\* prices in hundredths, above zero as validateRequest demands
Amounts ==
    { 1, 50, 150, 250, 99900, 99949, 99950, 100000, 100050, 55000000, 99999950, 123456789 }

\* "Dollar", the default of the form, and "EUR"
Currencies ==
    { Dollar, <<69, 85, 82>> }

\* "123 Main St", "Springfield", "IL", "12345", each present or empty
Locations ==
    [ Address : {<<>>, <<49,50,51,32,77,97,105,110,32,83,116>>},
      City : {<<>>, <<83,112,114,105,110,103,102,105,101,108,100>>},
      State : {<<>>, <<73,76>>},
      ZipCode : {<<>>, <<49,50,51,52,53>>} ]

AmenityLists ==
    { SubSeq(<<Sample.AmPool, Sample.AmGym, Sample.AmSpa, Sample.AmBar, Sample.AmLift>>, 1, n) : n \in 0..MaxAmenities }

\* the cursor on entry to the grid and the language of the page
GridArgs ==
    [ amenities : AmenityLists, y : {400, AmenitiesClampY + HeaderHeight}, arabic : BOOLEAN ]

\* the places that compare the cursor with a threshold before a block
OverflowSites ==
    { "englishAmenities", "arabicAmenities", "combinedHighlights", "combinedAmenities",
      "combinedInvestment", "combinedGallery" }

\* cursor positions below, at and above the thresholds of 200 and 220 mm
CursorYs ==
    { 400, 2000, 2010, 2200, 2210, 2600 }

\* if *currentY > 220 { *currentY = 220 } of both details pages
ClampCursor(c) ==
    IF c.y > AmenitiesClampY THEN Cur(c.doc, AmenitiesClampY) ELSE c

\* if currentY > limit { pdf.AddPage(); ...; currentY = marginY + 10 } of
\* addDetailsPageArabicCombined
BreakPage(s, c, limit) ==
    IF c.y > limit
    THEN Cur(addBrandingIfAvailable(s, AddPage(c.doc, "Details")), marginY + 100)
    ELSE c

\* the check of a site on the document and cursor c
OverflowCheck(s, site, c) ==
    CASE site \in {"englishAmenities", "arabicAmenities"} -> ClampCursor(c)
      [] site \in {"combinedHighlights", "combinedAmenities"} -> BreakPage(s, c, 2200)
      [] OTHER -> BreakPage(s, c, 2000)

InitPure ==
    /\ svc = NewPDFService(NoUrl)
    /\ env = NoFonts
    /\ calls = [c \in Calls |-> Idle]
    /\ fit = NoFit
    /\ req = NoRequest
    /\ \/ \E t \in MojibakeTexts : pure = [f |-> "fix", arg |-> t, out |-> <<>>, done |-> FALSE]
       \/ \E t \in BulletTexts : pure = [f |-> "sanitize", arg |-> t, out |-> <<>>, done |-> FALSE]
       \/ \E a \in Amounts, c \in Currencies : pure = [f |-> "price", arg |-> [Price |-> a, Currency |-> c], out |-> <<>>, done |-> FALSE]
       \/ \E l \in Locations : pure = [f |-> "location", arg |-> l, out |-> <<>>, done |-> FALSE]
       \/ \E g \in GridArgs : pure = [f |-> "grid", arg |-> g, out |-> <<>>, done |-> FALSE]
       \/ \E site \in OverflowSites, y \in CursorYs : pure = [f |-> "overflow", arg |-> [site |-> site, y |-> y], out |-> <<>>, done |-> FALSE]

Apply(f, out) ==
    /\ pure.f = f
    /\ ~pure.done
    /\ pure' = [pure EXCEPT !.out = out, !.done = TRUE]
    /\ UNCHANGED <<svc, env, calls, fit, req>>

FixStep ==
    Apply("fix", fixMojibakeLatin1ToUTF8(pure.arg))

SanitizeStep ==
    Apply("sanitize", sanitizeBulletText(pure.arg))

PriceStep ==
    Apply("price", formatPrice(pure.arg.Price, pure.arg.Currency))

LocationStep ==
    Apply("location", formatLocation(pure.arg))

\* the amenities grid of the details page, entered with the cursor at pure.arg.y
GridStep ==
    Apply("grid", AmenitiesGrid(Cur(AddPage(NewDoc, "Details"), pure.arg.y), pure.arg.amenities, "Arial", pure.arg.arabic))

\* the cursor check of site pure.arg.site on a page whose cursor is at pure.arg.y
OverflowStep ==
    Apply("overflow", OverflowCheck(svc, pure.arg.site, Cur(AddPage(NewDoc, "Details"), pure.arg.y)))

NextPure ==
    \/ FixStep
    \/ SanitizeStep
    \/ PriceStep
    \/ LocationStep
    \/ GridStep
    \/ OverflowStep

SpecPure ==
    InitPure /\ [][NextPure]_vars


(* --------------------------- SubmitProperty --------------------------- *)

\* default of MAX_FILE_SIZE, in bytes
maxFileSize == 10485760

isAllowedFileType(contentType) ==
    contentType \in {"image/jpeg", "image/jpg", "image/png", "image/webp"}

\* the multipart forms submitted: the complete form, the form with one
\* field left empty, with each kind of price, unparsable, and each with
\* every list of image files
Forms ==
    LET photo == [Size |-> 204800, ContentType |-> "image/jpeg"]
        full == [parsed |-> TRUE, title |-> Sample.TitleUser, description |-> Sample.DescUser,
                 currency |-> Dollar, address |-> <<49, 32, 77, 97, 105, 110>>, city |-> <<79, 115, 108, 111>>,
                 state |-> <<79, 115, 108, 111>>, zipCode |-> <<48, 49, 53, 48>>, agentName |-> <<65, 110, 110>>,
                 agentEmail |-> <<97, 64, 98, 46, 99>>, agentPhone |-> <<53, 53, 53>>,
                 price |-> [parses |-> TRUE, value |-> 55000000],
                 amenities |-> <<Sample.AmPool, Sample.AmGym>>, images |-> <<>>]
        fields == {"title", "currency", "address", "city", "state", "zipCode", "agentName", "agentEmail", "agentPhone"}
        prices == {[parses |-> FALSE, value |-> 0], [parses |-> TRUE, value |-> 0], [parses |-> TRUE, value |-> -100]}
        files == { <<>>, <<photo>>, <<photo, photo>>,
                   <<photo, [Size |-> maxFileSize + 1, ContentType |-> "image/png"]>>,
                   <<photo, [Size |-> 1024, ContentType |-> "application/pdf"]>>,
                   <<[Size |-> maxFileSize, ContentType |-> "image/gif"]>> }
        values == {full, [full EXCEPT !.parsed = FALSE]}
                  \cup { [full EXCEPT ![k] = <<>>] : k \in fields }
                  \cup { [full EXCEPT !.price = p] : p \in prices }
    IN  { [f EXCEPT !.images = l] : f \in values, l \in files }

\* c.FormValue(key, default)
FormValue(form, key, default) ==
    IF form[key] = <<>> THEN default ELSE form[key]

\* models.PropertyRequest filled from the form
PropertyRequest(form) ==
    [Title |-> form.title, Description |-> form.description, Price |-> form.price.value,
     Currency |-> FormValue(form, "currency", Dollar), Address |-> form.address, City |-> form.city,
     State |-> form.state, ZipCode |-> form.zipCode, AgentName |-> form.agentName,
     AgentEmail |-> form.agentEmail, AgentPhone |-> form.agentPhone, Amenities |-> form.amenities]

\* the error of the first rule broken, "" when the request is valid
validateRequest(r) ==
    IF r.Title = <<>> THEN "title is required"
    ELSE IF r.Price <= 0 THEN "price must be greater than 0"
    ELSE IF r.Address = <<>> THEN "address is required"
    ELSE IF r.City = <<>> THEN "city is required"
    ELSE IF r.State = <<>> THEN "state is required"
    ELSE IF r.ZipCode = <<>> THEN "zip code is required"
    ELSE IF r.AgentName = <<>> THEN "agent name is required"
    ELSE IF r.AgentEmail = <<>> THEN "agent email is required"
    ELSE IF r.AgentPhone = <<>> THEN "agent phone is required"
    ELSE ""

\* return c.Status(status).JSON(...)
Reply(q, status, message) ==
    [q EXCEPT !.pc = "replied", !.status = status, !.message = message]

\* a call to a collaborator (S3, OpenAI, the PDF service, MongoDB) and its outcome
Step(q, name, ok) ==
    [q EXCEPT !.steps = Append(@, [name |-> name, ok |-> ok])]

\* each PDF uploaded right after it was generated
NextStepUploadEach(pc) ==
    IF pc = "validate" THEN "images"
    ELSE IF pc = "images" THEN "legacy"
    ELSE IF pc = "legacy" THEN "localized"
    ELSE IF pc = "localized" THEN "generateEnglish"
    ELSE IF pc = "generateEnglish" THEN "uploadEnglish"
    ELSE IF pc = "uploadEnglish" THEN "generateArabic"
    ELSE IF pc = "generateArabic" THEN "uploadArabic"
    ELSE IF pc = "uploadArabic" THEN "insert"
    ELSE "created"

\* the block of SubmitProperty that follows a block
NextStep(pc) ==
    IF pc = "validate" THEN "images"
    ELSE IF pc = "images" THEN "legacy"
    ELSE IF pc = "legacy" THEN "localized"
    ELSE IF pc = "localized" THEN "generateEnglish"
    ELSE IF pc = "generateEnglish" THEN "generateArabic"
    ELSE IF pc = "generateArabic" THEN "uploadEnglish"
    ELSE IF pc = "uploadEnglish" THEN "uploadArabic"
    ELSE IF pc = "uploadArabic" THEN "insert"
    ELSE "created"

\* form parsing, price parsing and validateRequest
Validate ==
    /\ req.pc = "validate"
    /\ req' = IF ~req.form.parsed THEN Reply(req, 400, "Invalid form data")
              ELSE IF ~req.form.price.parses THEN Reply(req, 400, "Invalid price format")
              ELSE LET r == PropertyRequest(req.form) IN
                   IF validateRequest(r) # "" THEN Reply(req, 400, "Validation failed")
                   ELSE [req EXCEPT !.r = r, !.i = 1, !.pc = NextStep("validate")]
    /\ UNCHANGED <<svc, env, calls, fit, pure>>

\* one round of the loop over images[]: the checks of the file, then its
\* upload; past the last file the handler goes on
Images ==
    /\ req.pc = "images"
    /\ \E opened \in BOOLEAN, uploaded \in BOOLEAN :
          req' = IF req.i > Len(req.form.images) THEN [req EXCEPT !.pc = NextStep("images")]
                 ELSE LET fileHeader == req.form.images[req.i] IN
                      IF fileHeader.Size > maxFileSize THEN Reply(req, 400, "File size exceeds maximum allowed size")
                      ELSE IF ~isAllowedFileType(fileHeader.ContentType) THEN Reply(req, 400, "Invalid file type")
                      ELSE IF ~opened THEN Reply(req, 500, "Failed to process image")
                      ELSE IF ~uploaded THEN Reply(Step(req, "images", FALSE), 500, "Failed to upload image")
                      ELSE [Step(req, "images", TRUE) EXCEPT !.imageURLs = Append(@, UWide), !.i = @ + 1]
    /\ UNCHANGED <<svc, env, calls, fit, pure>>

\* GeneratePropertyContent: an error, or the three generated texts
LegacyAI ==
    /\ req.pc = "legacy"
    /\ \E outcome \in {<<>>, <<AI(<<>>, <<>>, <<>>)>>, <<AI(Sample.DescAIEn, Sample.DescAIAr, <<Sample.HlAI, Sample.HlGym>>)>>} :
          req' = IF outcome = <<>> THEN Reply(Step(req, "legacy", FALSE), 500, "Failed to generate AI content")
                 ELSE [Step(req, "legacy", TRUE) EXCEPT !.aiContent = outcome[1], !.pc = NextStep("legacy")]
    /\ UNCHANGED <<svc, env, calls, fit, pure>>

\* models.Property of the request; the localized content is copied when
\* there is one, its additional section and thank-you message never
buildProperty(r, imageURLs, aiContent, localizedContent) ==
    LET copy(l) == Loc(l.Title, l.Description, l.Highlights, l.TranslatedAmenities, l.AmenitiesLabel, l.AgentLabel,
                       l.PropertyDescriptionLabel, l.KeyHighlightsLabel, l.PropertyGalleryLabel, <<>>, <<>>, <<>>)
    IN  [Title |-> r.Title, Description |-> r.Description, Price |-> r.Price, Currency |-> r.Currency,
         Address |-> r.Address, City |-> r.City, State |-> r.State, ZipCode |-> r.ZipCode,
         Amenities |-> r.Amenities, ImageURLs |-> imageURLs,
         AgentInfo |-> [Name |-> r.AgentName, Email |-> r.AgentEmail, Phone |-> r.AgentPhone],
         AIContent |-> aiContent,
         EnglishContent |-> IF localizedContent = <<>> THEN NoContent ELSE copy(localizedContent[1].EnglishContent),
         ArabicContent |-> IF localizedContent = <<>> THEN NoContent ELSE copy(localizedContent[1].ArabicContent)]

\* a failure of the localized content ends the request
localizedStepMandatory(q, outcome) ==
    IF outcome = <<>>
    THEN Reply(Step(q, "localized", FALSE), 500, "Failed to generate localized content")
    ELSE [Step(q, "localized", TRUE) EXCEPT !.localizedContent = outcome, !.pc = NextStep("localized"),
                                            !.property = buildProperty(q.r, q.imageURLs, q.aiContent, outcome)]

\* GenerateLocalizedContent and the property built from its outcome: an
\* error leaves localizedContent nil
localizedStep(q, outcome) ==
    [Step(q, "localized", outcome # <<>>) EXCEPT !.localizedContent = outcome, !.pc = NextStep("localized"),
                                                 !.property = buildProperty(q.r, q.imageURLs, q.aiContent, outcome)]

Localized ==
    /\ req.pc = "localized"
    /\ \E outcome \in {<<>>, <<[EnglishContent |-> [Title |-> Sample.TitleLocEn, Description |-> Sample.DescLocEn,
                                                   Highlights |-> <<Sample.HlPool>>, TranslatedAmenities |-> <<Sample.AmPool>>,
                                                   AmenitiesLabel |-> Sample.LblAmen, AgentLabel |-> Sample.LblAgent,
                                                   PropertyDescriptionLabel |-> Sample.LblDesc, KeyHighlightsLabel |-> Sample.LblHigh,
                                                   PropertyGalleryLabel |-> Sample.LblGallery],
                                ArabicContent |-> [Title |-> Sample.TitleLocAr, Description |-> Sample.DescLocAr,
                                                   Highlights |-> <<Sample.HlPoolAr>>, TranslatedAmenities |-> <<Sample.AmPoolAr>>,
                                                   AmenitiesLabel |-> Sample.LblAmenAr, AgentLabel |-> Sample.LblAgentAr,
                                                   PropertyDescriptionLabel |-> Sample.LblDescAr, KeyHighlightsLabel |-> Sample.LblHighAr,
                                                   PropertyGalleryLabel |-> Sample.LblGalleryAr]]>>} :
          req' = localizedStep(req, outcome)
    /\ UNCHANGED <<svc, env, calls, fit, pure>>

\* a call whose error ends the request with status 500
Mandatory(step, message) ==
    /\ req.pc = step
    /\ \E ok \in BOOLEAN :
          req' = IF ok THEN [Step(req, step, TRUE) EXCEPT !.pc = NextStep(step)]
                 ELSE Reply(Step(req, step, FALSE), 500, message)
    /\ UNCHANGED <<svc, env, calls, fit, pure>>

GenerateEnglish ==
    Mandatory("generateEnglish", "Failed to generate English PDF")

GenerateArabic ==
    Mandatory("generateArabic", "Failed to generate Arabic PDF")

UploadEnglish ==
    Mandatory("uploadEnglish", "Failed to upload English PDF")

UploadArabic ==
    Mandatory("uploadArabic", "Failed to upload Arabic PDF")

Insert ==
    Mandatory("insert", "Failed to save property")

\* the success response
Created ==
    /\ req.pc = "created"
    /\ req' = Reply(req, 201, "Property listing created successfully")
    /\ UNCHANGED <<svc, env, calls, fit, pure>>

\* the brochures are composed by the PDF service; here its calls only succeed or fail
InitSubmit ==
    /\ svc = NewPDFService(NoUrl)
    /\ env = [arabic |-> TRUE, body |-> TRUE]
    /\ calls = [c \in Calls |-> Idle]
    /\ fit = NoFit
    /\ pure = NoPure
    /\ \E form \in Forms : req = [NoRequest EXCEPT !.pc = "validate", !.form = form]

NextSubmit ==
    \/ Validate
    \/ Images
    \/ LegacyAI
    \/ Localized
    \/ GenerateEnglish
    \/ GenerateArabic
    \/ UploadEnglish
    \/ UploadArabic
    \/ Insert
    \/ Created

SpecSubmit ==
    InitSubmit /\ [][NextSubmit]_vars


(* ------------------------------- claims ------------------------------- *)

Done(c) ==
    calls[c].pc = "done"

Monolingual(c) ==
    calls[c].variant \in {"english", "arabic"}

\* the calls the composer issued on document d
OpSet(d) ==
    { d.ops[i] : i \in DOMAIN d.ops }

\* the texts drawn with a role on a page, in drawing order
RECURSIVE TextsOf(_, _, _)
TextsOf(ops, role, pg) ==
    IF ops = <<>> THEN <<>>
    ELSE (IF Head(ops).role = role /\ Head(ops).pg = pg THEN <<Head(ops).txt>> ELSE <<>>)
         \o TextsOf(Tail(ops), role, pg)

FourPages ==
    <<"Cover", "Details", "Investment", "Contact">>

\* number of pages a call has composed when it is at pc
PagesAt(pc) ==
    CASE pc = "cover" -> 0
      [] pc = "details" -> 1
      [] pc = "invest" -> 2
      [] pc = "contact" -> 3
      [] OTHER -> 4

C2_OnlySerializationFails ==
    \A c \in Calls : Done(c) => calls[c].result = "bytes"

\* C3: wherever addImageFromURL reports an image as unavailable (hero image,
\* gallery slot, branding logo) the next thing drawn is the placeholder
\* rectangle in the requested box.
C3_PlaceholderAtEveryCallSite ==
    \A c \in Calls :
        LET ops == calls[c].doc.ops IN
        \A i \in DOMAIN ops :
            (ops[i].k = "image" /\ ops[i].st = "unavailable") =>
                /\ i < Len(ops)
                /\ ops[i + 1].k = "placeholder"
                /\ ops[i + 1].box = ops[i].box
                /\ ops[i + 1].pg = ops[i].pg

Min(a, b) ==
    IF a < b THEN a ELSE b

\* C4: for a decoded image of positive size iw x ih and a box (x, y, w, h) the
\* rectangle drawn is iw*s x ih*s with s = min(w/iw, h/ih): its sides are in
\* the ratio iw:ih, it lies inside the box, and the space left over is the
\* same on both sides of each axis; 1200x800 into 170x100 mm gives 150x100 mm
\* at offset (10, 0).  Coordinates are exact fractions over rect.den.
C4_AspectFit ==
    fit.done =>
        LET r == fit.rect
            b == fit.box
            g == GCD(fit.iw, fit.ih)
            rw == fit.iw \div g
            rh == fit.ih \div g
            m == Min(b.w * rh, b.h * rw)
        IN  /\ r.den = 2 * rw * rh
            /\ r.w = 2 * rw * m
            /\ r.h = 2 * rh * m
            /\ r.w * rh = r.h * rw
            /\ r.x >= b.x * r.den /\ r.x + r.w <= (b.x + b.w) * r.den
            /\ r.y >= b.y * r.den /\ r.y + r.h <= (b.y + b.h) * r.den
            /\ 2 * (r.x - b.x * r.den) = b.w * r.den - r.w
            /\ 2 * (r.y - b.y * r.den) = b.h * r.den - r.h
            /\ (b = Box(0, 0, 1700, 1000) /\ fit.iw = 1200 /\ fit.ih = 800)
                  => r = Rect(100 * 12, 0, 1500 * 12, 1000 * 12, 12)

C4_Witness ==
    /\ fit.done
    /\ fit.box = Box(0, 0, 1700, 1000) /\ fit.iw = 1200 /\ fit.ih = 800
    /\ fit.rect.w = 1500 * fit.rect.den

\* C5: an image that is fetched but cannot be decoded is placed at exactly the
\* requested box, and the call that placed it returns the PDF bytes.
C5_UndecodableStillPlaced ==
    \A c \in Calls :
        \A op \in OpSet(calls[c].doc) :
            (op.k = "image" /\ op.st = "placed" /\ ~Fetch(op.url).decoded) =>
                /\ op.rect = Rect(op.box.x, op.box.y, op.box.w, op.box.h, 1)
                /\ Done(c) => calls[c].result = "bytes"

\* C6: calls in progress at the same time share no mutable state: no field of
\* the service written by one call is read or written by another.
C6_NoSharedMutableState ==
    \A c, d \in Calls :
        (c # d /\ calls[c].pc # "idle" /\ calls[d].pc # "idle") =>
            calls[c].wr \cap (calls[d].rd \cup calls[d].wr) = {}

RECURSIVE Sanitized(_)
Sanitized(highlights) ==
    IF highlights = <<>> THEN <<>>
    ELSE <<sanitizeBulletText(Head(highlights))>> \o Sanitized(Tail(highlights))

\* C7: when the localized content of the brochure's language has a non-empty
\* description, the cover title, the description, the highlights and the
\* amenities drawn are those of the localized content (the title when the
\* localized content has one).  The Arabic sample strings hold
\* Arabic letters, which the mojibake repair leaves alone.
C7_LocalizedFieldsUsed ==
    \A c \in Calls :
        (Done(c) /\ Monolingual(c)) =>
            LET loc == IF calls[c].variant = "english"
                       THEN calls[c].property.EnglishContent
                       ELSE calls[c].property.ArabicContent
                ops == calls[c].doc.ops
                fix(t) == IF calls[c].variant = "arabic" THEN fixMojibakeLatin1ToUTF8(t) ELSE t
            IN  loc.Description # <<>> =>
                   /\ loc.Title # <<>> => TextsOf(ops, "title", 1) = <<fix(loc.Title)>>
                   /\ TextsOf(ops, "description", 2) = <<fix(loc.Description)>>
                   /\ TextsOf(ops, "highlight", 2)
                         = [i \in DOMAIN loc.Highlights |-> fix(Sanitized(loc.Highlights)[i])]
                   /\ TextsOf(ops, "amenity", 2)
                         = [i \in DOMAIN loc.Amenities |-> fix(loc.Amenities[i])]

HeaderRoles ==
    {"descHeader", "highlightsHeader", "amenitiesHeader", "galleryHeader", "agentLabel"}

\* C8: no section header (description, highlights, amenities, gallery, agent)
\* is drawn with an empty title, also when the localized content in use leaves
\* a label empty.
C8_NoEmptyHeader ==
    \A c \in Calls :
        \A op \in OpSet(calls[c].doc) :
            op.role \in HeaderRoles => op.txt # <<>>

LabelRoles ==
    HeaderRoles \cup {"nameLabel", "emailLabel", "phoneLabel", "thankYou"}

\* C9: in the Arabic brochure of a record whose Arabic localized content is
\* absent or has only empty labels, every label drawn is an Arabic string:
\* the headers, the heading and the name/email/phone labels of the contact
\* card, and the thank-you message.
C9_ArabicLabelsOnly ==
    \A c \in Calls :
        (calls[c].variant = "arabic"
            /\ calls[c].property.ArabicContent \in {NoContent, BareAr}) =>
            \A op \in OpSet(calls[c].doc) :
                op.role \in LabelRoles => HasArabicRune(op.txt)

FirstNonEmpty(a, b) ==
    IF a # <<>> THEN a ELSE b

\* C10: once the Details page is composed it holds exactly one description,
\* which is not empty: the localized description, else the legacy one (English:
\* the AI English description, then the property's own; Arabic: the AI Arabic
\* description), else the placeholder sentence of the language.
C10_DescriptionNeverEmpty ==
    \A c \in Calls :
        (Monolingual(c) /\ PagesAt(calls[c].pc) >= 2) =>
            LET p == calls[c].property
                drawn == TextsOf(calls[c].doc.ops, "description", 2)
                english == FirstNonEmpty(p.EnglishContent.Description,
                              FirstNonEmpty(p.AIContent.EnglishDescription,
                                 FirstNonEmpty(p.Description, Lit.NoDescriptionEn)))
                arabic == FirstNonEmpty(p.ArabicContent.Description,
                             FirstNonEmpty(p.AIContent.ArabicDescription, Lit.NoDescriptionAr))
            IN  /\ Len(drawn) = 1
                /\ drawn[1] # <<>>
                /\ drawn[1] = IF calls[c].variant = "english" THEN english
                              ELSE fixMojibakeLatin1ToUTF8(arabic)

C10_Witness ==
    \E c \in Calls :
        /\ Done(c) /\ calls[c].variant = "english"
        /\ calls[c].property.EnglishContent = NoContent
        /\ calls[c].property.AIContent.EnglishDescription = <<>>
        /\ calls[c].property.Description = <<>>
        /\ TextsOf(calls[c].doc.ops, "description", 2) = <<Lit.NoDescriptionEn>>


\* C11: in the Arabic brochure every Arabic string is passed through
\* fixMojibakeLatin1ToUTF8 before it is drawn: what is drawn as cover heading
\* and title, section header, description, highlight, amenity, investment
\* title and text, gallery label, contact label and thank-you message is the
\* repaired form of the string the resolver chose.
C11_ArabicTextsRepaired ==
    \A c \in Calls :
        (Done(c) /\ calls[c].variant = "arabic") =>
            LET p == calls[c].property
                r == ArabicDetails(p)
                ops == calls[c].doc.ops
                fix(t) == fixMojibakeLatin1ToUTF8(t)
                loc == p.ArabicContent
                inv == IF loc.AdditionalSectionTitle # <<>>
                       THEN <<loc.AdditionalSectionTitle, loc.AdditionalSectionContent>>
                       ELSE <<Lit.InvestmentTitleAr, Lit.InvestmentTextAr>>
                gallery == IF loc.PropertyGalleryLabel # <<>>
                           THEN loc.PropertyGalleryLabel ELSE Lit.GalleryLabelAr
                l == AgentLabels(p, TRUE)
            IN  /\ TextsOf(ops, "heading", 1) = <<fix(Lit.PropertyBrochureAr)>>
                /\ loc.Title # <<>> => TextsOf(ops, "title", 1) = <<fix(loc.Title)>>
                /\ TextsOf(ops, "descHeader", 2) = <<fix(r.descLabel)>>
                /\ TextsOf(ops, "description", 2) = <<fix(r.description)>>
                /\ r.highlights # <<>>
                      => TextsOf(ops, "highlightsHeader", 2) = <<fix(r.highlightsLabel)>>
                /\ TextsOf(ops, "highlight", 2)
                      = [i \in DOMAIN r.highlights |-> fix(Sanitized(r.highlights)[i])]
                /\ r.amenities # <<>>
                      => TextsOf(ops, "amenitiesHeader", 2) = <<fix(r.amenitiesLabel)>>
                /\ TextsOf(ops, "amenity", 2)
                      = [i \in DOMAIN r.amenities |-> fix(r.amenities[i])]
                /\ inv[2] # <<>>
                      => /\ TextsOf(ops, "investmentHeader", 3) = <<fix(inv[1])>>
                         /\ TextsOf(ops, "investmentText", 3) = <<fix(inv[2])>>
                /\ Len(p.ImageURLs) > 1
                      => TextsOf(ops, "galleryHeader", 3) = <<fix(gallery)>>
                /\ TextsOf(ops, "agentLabel", 4) = <<fix(l.agent)>>
                /\ TextsOf(ops, "nameLabel", 4) = <<fix(l.name)>>
                /\ TextsOf(ops, "thankYou", 4) = <<fix(ThankYou(p, TRUE))>>


Applied(f) ==
    pure.f = f /\ pure.done

\* the text holds the marker character A tilde (U+00C3)
HasMarker(s) ==
    \E i \in 1..Len(s) : s[i] = 195

\* C12: for every Arabic text s whose Latin-1 mis-decoding t holds the marker
\* and no Arabic code point, fixMojibakeLatin1ToUTF8(t) is s again.
C12_MisdecodingUndone ==
    \A s \in ArabicTexts :
        (Applied("fix") /\ pure.arg = MisdecodedLatin1(s)
            /\ HasMarker(pure.arg) /\ ~HasArabicRune(pure.arg)) => pure.out = s

\* C13: fixMojibakeLatin1ToUTF8 returns its input unchanged when the input
\* holds an Arabic code point (marker or not) and when it holds no marker.
C13_UnchangedWhenArabicOrNoMarker ==
    (Applied("fix") /\ (HasArabicRune(pure.arg) \/ ~HasMarker(pure.arg))) => pure.out = pure.arg

\* an input with both an Arabic letter and the marker came back unchanged
C13_Witness ==
    Applied("fix") /\ HasArabicRune(pure.arg) /\ HasMarker(pure.arg) /\ pure.out = pure.arg

\* C14: sanitizeBulletText is idempotent: applied to its own result it
\* returns that result.
C14_SanitizeIdempotent ==
    Applied("sanitize") => sanitizeBulletText(pure.out) = pure.out


\* the calls that have composed page 3
PastInvest(c) ==
    calls[c].pc \in {"contact", "output", "done"}

\* the frames of the gallery slots and the image calls made for them, in order
GalleryFrames(d) ==
    LET isFrame(o) == o.k = "frame" /\ o.role = "gallery" IN SelectSeq(d.ops, isFrame)

GalleryImages(d) ==
    LET isImage(o) == o.k = "image" /\ o.role = "gallery" IN SelectSeq(d.ops, isImage)

\* the top of the slot with the given 0-based number, below the gallery header
\* of a document, and whether that slot fits above the bottom limit
SlotY(d, slot) ==
    LET hdr == CHOOSE o \in OpSet(d) : o.role = "galleryHeader"
    IN  hdr.box.y + HeaderHeight + 30 + (slot \div 2) * (imgHeight + spacing)

SlotFits(d, slot) ==
    SlotY(d, slot) + imgHeight <= pageHeight - 350

\* C15: the gallery of page 3 is drawn only for more than one URL; it places
\* at most 4 images, those of list positions 1..4 in order and never the hero
\* image of position 0, in a grid of 2 columns and 2 rows; every placed slot
\* ends at or above pageHeight - 35 mm, and from the first slot that would
\* not, nothing more is placed.
C15_GalleryGrid ==
    \A c \in Calls :
        PastInvest(c) =>
            LET d == calls[c].doc
                urls == calls[c].property.ImageURLs
                frames == GalleryFrames(d)
                images == GalleryImages(d)
                n == Len(frames)
            IN  /\ Len(images) = n
                /\ (\E o \in OpSet(d) : o.role \in {"gallery", "galleryHeader"}) => Len(urls) > 1
                /\ n <= 4
                /\ n <= Len(urls) - 1 \/ n = 0
                /\ \A k \in 1..n :
                      /\ frames[k].pg = 3 /\ images[k].pg = 3
                      /\ images[k].url = urls[k + 1]
                      /\ frames[k].box = Box(marginX + ((k - 1) % 2) * (imgWidth + spacing), SlotY(d, k - 1), imgWidth, imgHeight)
                      /\ images[k].box = Box(frames[k].box.x + 20, frames[k].box.y + 20, imgWidth - 40, imgHeight - 40)
                      /\ frames[k].box.y + imgHeight <= pageHeight - 350
                /\ (Len(urls) > 1 /\ n < 4 /\ n < Len(urls) - 1) => ~SlotFits(d, n)

\* a list of six URLs whose gallery stopped after its first row for lack of
\* space: positions 1 and 2 placed, 3 and 4 not
C15_Witness ==
    \E c \in Calls :
        /\ PastInvest(c)
        /\ Len(calls[c].property.ImageURLs) = 6
        /\ Len(GalleryFrames(calls[c].doc)) = 2
        /\ GalleryImages(calls[c].doc)[2].url = calls[c].property.ImageURLs[3]


\* the texts of a role drawn on page 1 after the hero placeholder
AfterHeroPlaceholder(d, role) ==
    \E i, j \in DOMAIN d.ops :
        /\ i < j
        /\ d.ops[i].k = "placeholder" /\ d.ops[i].role = "hero"
        /\ d.ops[j].k = "text" /\ d.ops[j].role = role /\ d.ops[j].pg = 1

\* C16: with an empty image list the cover page, English or Arabic, makes no
\* image call for a hero image, draws the placeholder box over the hero area
\* and goes on to draw title, price, location and page number 1; the
\* document holds no error when the page is complete.
C16_EmptyImageListCover ==
    \A c \in Calls :
        (calls[c].pc \notin {"idle", "cover"} /\ calls[c].property.ImageURLs = <<>>) =>
            LET d == calls[c].doc
                p == calls[c].property
            IN  /\ ~(\E o \in OpSet(d) : o.k = "image" /\ o.role = "hero")
                /\ \E o \in OpSet(d) : o.k = "placeholder" /\ o.role = "hero" /\ o.box = HeroBox /\ o.pg = 1
                /\ AfterHeroPlaceholder(d, "title")
                /\ AfterHeroPlaceholder(d, "price")
                /\ AfterHeroPlaceholder(d, "location")
                /\ TextsOf(d.ops, "price", 1) = <<formatPrice(p.Price, p.Currency)>>
                /\ TextsOf(d.ops, "location", 1) = <<formatLocation(p)>>
                /\ Len(TextsOf(d.ops, "title", 1)) = 1
                /\ d.nums # <<>> /\ d.nums[1] = 1
                /\ calls[c].pc = "details" => d.err = ""


\* the image calls of a document that registered and placed an image, in order
Placements(d) ==
    LET isPlaced(o) == o.k = "image" /\ o.st = "placed" IN SelectSeq(d.ops, isPlaced)

\* C17: within one document no two image placements register under the same
\* identifier, whether they differ in URL, in position or only in page (the
\* logo placed once per page).
C17_UniqueImageNames ==
    \A c \in Calls :
        LET d == calls[c].doc
            placed == Placements(d)
        IN  /\ Len(d.names) = Len(placed)
            /\ \A i, j \in DOMAIN placed :
                  (i # j /\ (placed[i].url # placed[j].url \/ placed[i].pg # placed[j].pg
                                \/ placed[i].rect # placed[j].rect))
                      => d.names[i] # d.names[j]



\* C18: the amenities grid draws item i (from 0) in column i mod 2 and row
\* i div 2, rows 7 mm high, and leaves the cursor ceil(n/2) * 7 mm below where
\* it was, for the English and for the Arabic page.
C18_AmenitiesGridExtent ==
    Applied("grid") =>
        LET a == pure.arg
            n == Len(a.amenities)
            ops == pure.out.doc.ops
        IN  /\ Len(ops) = n
            /\ \A i \in 0..(n - 1) :
                  /\ ops[i + 1].role = "amenity"
                  /\ ops[i + 1].txt = (IF a.arabic THEN fixMojibakeLatin1ToUTF8(a.amenities[i + 1]) ELSE a.amenities[i + 1])
                  /\ ops[i + 1].box.x = marginX + 90 + (i % 2) * ((contentWidth - 100) \div 2 + 100)
                  /\ ops[i + 1].box.y = a.y + (i \div 2) * 70
            /\ pure.out.y = a.y + ((n + 1) \div 2) * 70

\* five amenities on the Arabic page took three rows
C18_Witness ==
    /\ Applied("grid")
    /\ pure.arg.arabic
    /\ Len(pure.arg.amenities) = 5
    /\ pure.out.y = pure.arg.y + 3 * 70
    /\ Len(pure.out.doc.ops) = 5



RECURSIVE Grouped(_)
\* the digits of n in groups of three from the right, a comma between groups
Grouped(n) ==
    IF n < 1000 THEN Digits(n)
    ELSE Grouped(n \div 1000) \o <<44, 48 + (n % 1000) \div 100, 48 + ((n % 100) \div 10), 48 + (n % 10)>>

\* C19: formatPrice returns the currency code, one space and the amount
\* rounded to an integer, its digits in groups of three from the right with a
\* comma between groups: none before the first digit, none below 1000.
C19_PriceGrouped ==
    Applied("price") =>
        \E n \in {pure.arg.Price \div 100, pure.arg.Price \div 100 + 1} :
            /\ 100 * n - pure.arg.Price <= 50
            /\ pure.arg.Price - 100 * n <= 50
            /\ pure.out = pure.arg.Currency \o <<32>> \o Grouped(n)

\* 550000 in "Dollar" came out as "Dollar 550,000"
C19_Witness ==
    /\ Applied("price")
    /\ pure.arg = [Price |-> 55000000, Currency |-> Dollar]
    /\ pure.out = <<68,111,108,108,97,114,32,53,53,48,44,48,48,48>>

RECURSIVE JoinedByComma(_)
JoinedByComma(parts) ==
    IF Len(parts) = 1 THEN parts[1]
    ELSE JoinedByComma(SubSeq(parts, 1, Len(parts) - 1)) \o <<44, 32>> \o parts[Len(parts)]

\* C20: formatLocation returns the non-empty ones of address, city, state and
\* zip, in that order, with ", " between them and nothing for an empty field,
\* and "Location not specified" when all four are empty.
C20_LocationJoined ==
    Applied("location") =>
        LET a == pure.arg
            isSet(f) == f # <<>>
            parts == SelectSeq(<<a.Address, a.City, a.State, a.ZipCode>>, isSet)
        IN  IF parts = <<>>
            THEN pure.out = <<76,111,99,97,116,105,111,110,32,110,111,116,32,115,112,101,99,105,102,105,101,100>>
            ELSE pure.out = JoinedByComma(parts)

\* "123 Main St", "Springfield", "", "12345" came out as
\* "123 Main St, Springfield, 12345"
C20_Witness ==
    /\ Applied("location")
    /\ pure.arg.State = <<>>
    /\ pure.out = <<49,50,51,32,77,97,105,110,32,83,116,44,32,83,112,114,105,110,103,102,105,101,108,100,44,32,49,50,51,52,53>>


\* the pages on which a document holds an operation of one of the roles
PagesOf(d, roles) ==
    { o.pg : o \in { x \in OpSet(d) : x.role \in roles } }

\* C21: the combined brochure of GenerateBrochure holds, besides the four
\* pages of a single-language brochure, a page of its own for the Arabic
\* description, after the Details page and before the Contact page; the
\* single-language brochures hold no such page.
C21_ArabicPageBetween ==
    \A c \in Calls :
        Done(c) =>
            LET d == calls[c].doc
                details == PagesOf(d, {"highlightsHeader", "amenitiesHeader", "highlight", "amenity"}) \cup {2}
                contact == PagesOf(d, {"agentLabel", "nameLabel", "thankYou"})
                arabic == { pg \in PagesOf(d, {"description"}) : pg \notin details }
            IN  IF calls[c].variant = "combined"
                THEN /\ Len(d.pages) = 5
                     /\ \E pg \in arabic : (\A a \in details : a < pg) /\ (\A b \in contact : pg < b)
                ELSE /\ Len(d.pages) = 4
                     /\ arabic = {}



\* what a cursor check did to a one-page document with the cursor at y
PolicyOf(y, c) ==
    IF Len(c.doc.pages) > 1 THEN "newPage"
    ELSE IF c.y # y THEN "clamp"
    ELSE "none"

\* C22: all the places that check the cursor against a near-bottom threshold
\* before a block follow one policy: whenever one of them clamps the cursor
\* and stays on the page none starts a new page, and the other way round.
C22_OneOverflowPolicy ==
    Applied("overflow") =>
        \A site \in OverflowSites, y \in CursorYs :
            LET mine == PolicyOf(pure.arg.y, pure.out)
                other == PolicyOf(y, OverflowCheck(svc, site, Cur(AddPage(NewDoc, "Details"), y)))
            IN  (mine # "none" /\ other # "none") => mine = other



\* the image area of the gallery slot with the given 0-based number
SlotImageBox(d, slot) ==
    Box(marginX + (slot % 2) * (imgWidth + spacing) + 20, SlotY(d, slot) + 20, imgWidth - 40, imgHeight - 40)

\* C23: the gallery images are handled in list order and the image of list
\* position i is drawn in slot i - 1 whether or not earlier gallery images
\* could be fetched; an image that cannot be fetched gets a placeholder in its
\* own slot and the images after it keep theirs.
C23_GallerySlotsKept ==
    \A c \in Calls :
        PastInvest(c) =>
            LET d == calls[c].doc
                urls == calls[c].property.ImageURLs
                images == GalleryImages(d)
                holes == { o.box : o \in { x \in OpSet(d) : x.k = "placeholder" /\ x.role = "gallery" } }
            IN  /\ \A k \in DOMAIN images :
                      /\ k <= 4
                      /\ images[k].url = urls[k + 1]
                      /\ images[k].box = SlotImageBox(d, k - 1)
                      /\ (images[k].st = "unavailable") <=> (images[k].box \in holes)
                /\ \A k, l \in DOMAIN images : k # l => images[k].box # images[l].box
                /\ holes \subseteq { images[k].box : k \in DOMAIN images }

\* the first gallery image could not be fetched and the second one is in the
\* second slot all the same
C23_Witness ==
    \E c \in Calls :
        /\ PastInvest(c)
        /\ Len(GalleryImages(calls[c].doc)) >= 2
        /\ GalleryImages(calls[c].doc)[1].st = "unavailable"
        /\ GalleryImages(calls[c].doc)[2].st = "placed"
        /\ GalleryImages(calls[c].doc)[2].url = calls[c].property.ImageURLs[3]
        /\ GalleryImages(calls[c].doc)[2].box = SlotImageBox(calls[c].doc, 1)



\* title and text page 3 is to show for a language: the localized pair when
\* the localized title is set, the built-in pair otherwise
InvestmentCopy(property, isArabic) ==
    LET loc == IF isArabic THEN property.ArabicContent ELSE property.EnglishContent
        own == <<loc.AdditionalSectionTitle, loc.AdditionalSectionContent>>
        builtIn == IF isArabic THEN <<Lit.InvestmentTitleAr, Lit.InvestmentTextAr>>
                   ELSE <<Lit.InvestmentTitleEn, Lit.InvestmentTextEn>>
        pair == IF loc.AdditionalSectionTitle # <<>> THEN own ELSE builtIn
    IN  IF isArabic THEN <<fixMojibakeLatin1ToUTF8(pair[1]), fixMojibakeLatin1ToUTF8(pair[2])>> ELSE pair

\* C24: page 3 of a single-language brochure always shows the investment
\* header and under it a non-empty text: the localized title and content when
\* the localized title is set (also when the localized content is empty),
\* the built-in title and text of the language otherwise.
C24_InvestmentBlockAlways ==
    \A c \in Calls :
        (PastInvest(c) /\ Monolingual(c)) =>
            LET d == calls[c].doc
                copy == InvestmentCopy(calls[c].property, calls[c].variant = "arabic")
                texts == TextsOf(d.ops, "investmentText", 3)
            IN  /\ TextsOf(d.ops, "investmentHeader", 3) = <<copy[1]>>
                /\ Len(texts) = 1
                /\ texts[1] # <<>>
                /\ \E i, j \in DOMAIN d.ops :
                      i < j /\ d.ops[i].role = "investmentHeader" /\ d.ops[j].role = "investmentText"



\* the fonts with which a document draws its texts and headers
FontsUsed(d) ==
    { o.font : o \in { x \in OpSet(d) : x.k \in {"text", "header"} } }

\* C25: a call draws with a custom font only if setupFonts added that font to
\* the call's own document, i.e. only if its file was there when the call
\* began; without the Arabic file no text is in ArabicFont, without the body
\* file none is in BodyFont, without both every text is in the built-in font,
\* whatever calls the PDFService served before.
C25_FontsOfOwnDocument ==
    \A c \in Calls :
        calls[c].pc # "idle" =>
            LET d == calls[c].doc IN
            /\ d.fonts = (IF env.arabic THEN {"ArabicFont"} ELSE {}) \cup (IF env.body THEN {"BodyFont"} ELSE {})
            /\ FontsUsed(d) \subseteq {"Arial"} \cup d.fonts



\* page 1, and pages 1 and 2, as the first call of a new PDFService with the
\* same logo composes them for the same variant, record and font files
FirstCallCover(variant, property) ==
    LET r == setupFonts(NewPDFService(svc.brandLogoURL), env, NewDoc) IN
    IF variant = "arabic" THEN addCoverPageArabic(r.svc, r.doc, property)
    ELSE addCoverPage(r.svc, r.doc, property)

FirstCallDetails(variant, property, desc) ==
    LET r == setupFonts(NewPDFService(svc.brandLogoURL), env, NewDoc) IN
    addDetailsPageOnly(r.svc, FirstCallCover(variant, property), property, variant = "arabic", Wrap(desc, 1, 1))

\* C26: a call issues the drawing operations that any other call of the same
\* variant with the same record, font files and image outcomes issues, in
\* particular those of the first call of a new service, whatever calls the
\* service has served before.
C26_SameInputsSameOperations ==
    \A c \in Calls :
        /\ calls[c].pc = "details" =>
              calls[c].doc.ops = FirstCallCover(calls[c].variant, calls[c].property).ops
        /\ calls[c].pc = "invest" =>
              \E desc \in LineCounts :
                  calls[c].doc.ops = FirstCallDetails(calls[c].variant, calls[c].property, desc).ops



\* the known prefixes the text starts with
MatchingPrefixes(t) ==
    { BulletPrefixes[i] : i \in { j \in DOMAIN BulletPrefixes : HasPrefix(t, BulletPrefixes[j]) } }

\* C27: sanitizeBulletText returns the trimmed input with at most one leading
\* token taken off: the longest of the known prefixes the trimmed text starts
\* with ("--" rather than "-", "->" rather than "-"), and then the space
\* around what is left; with no known prefix it returns the trimmed input.
C27_LongestPrefixRemoved ==
    Applied("sanitize") =>
        LET trimmed == TrimSpace(pure.arg)
            matching == MatchingPrefixes(trimmed)
        IN  IF matching = {}
            THEN pure.out = trimmed
            ELSE LET p == CHOOSE q \in matching : \A r \in matching : Len(r) <= Len(q)
                 IN  pure.out = TrimSpace(SubSeq(trimmed, Len(p) + 1, Len(trimmed)))

\* "--x" lost "--", not "-"
C27_Witness ==
    Applied("sanitize") /\ pure.arg = <<45, 45, 120>> /\ pure.out = <<120>>



\* the headers and texts of the blocks of page 2, in drawing order
DetailsBlocks(d) ==
    LET isBlock(o) == o.pg = 2 /\ o.role \in {"descHeader", "description", "highlightsHeader", "highlight", "amenitiesHeader", "amenity"}
    IN  SelectSeq(d.ops, isBlock)

\* C28: on the Details page the cursor never moves up between blocks: no
\* header or text starts above the start of the one drawn before it, and
\* what follows a section header starts below the header's 15 mm, whatever
\* the lengths of description, highlights and amenities.
C28_CursorNeverMovesUp ==
    \A c \in Calls :
        calls[c].pc \in {"invest", "contact", "output", "done"} =>
            LET blocks == DetailsBlocks(calls[c].doc) IN
            \A i \in 1..(Len(blocks) - 1) :
                blocks[i + 1].box.y >= blocks[i].box.y + (IF blocks[i].k = "header" THEN HeaderHeight ELSE 0)



\* the collaborator calls of the request so far, by name
Ran(name) ==
    \E i \in DOMAIN req.steps : req.steps[i].name = name

Succeeded(name) ==
    \E i \in DOMAIN req.steps : req.steps[i].name = name /\ req.steps[i].ok

Failed(name) ==
    \E i \in DOMAIN req.steps : req.steps[i].name = name /\ ~req.steps[i].ok

\* the place of a call in the order of SubmitProperty
Place(name) ==
    LET order == <<"images", "legacy", "localized", "generateEnglish", "generateArabic", "uploadEnglish", "uploadArabic", "insert">>
    IN  CHOOSE i \in DOMAIN order : order[i] = name

\* C29: SubmitProperty calls its collaborators in one order (image uploads,
\* legacy AI content, localized content, English PDF, Arabic PDF, upload of
\* the English PDF, of the Arabic PDF, insert), each at most once but the
\* image upload; a failed call other than the localized content is the last
\* one and is answered with an error; the insert follows the generation and
\* upload of both PDFs, an upload of a PDF follows the generation of both, a
\* request rejected by the validation of the request has called nothing, and
\* 201 is sent only after a successful insert.
C29_FixedOrderOfSteps ==
    /\ \A i, j \in DOMAIN req.steps :
          i < j => /\ Place(req.steps[i].name) <= Place(req.steps[j].name)
                   /\ Place(req.steps[i].name) = Place(req.steps[j].name) => req.steps[i].name = "images"
    /\ \A i \in DOMAIN req.steps :
          (~req.steps[i].ok /\ req.steps[i].name # "localized") =>
              i = Len(req.steps) /\ req.pc = "replied" /\ req.status \in {400, 500}
    /\ Ran("insert") =>
          Succeeded("generateEnglish") /\ Succeeded("generateArabic") /\ Succeeded("uploadEnglish") /\ Succeeded("uploadArabic")
    /\ (Ran("uploadEnglish") \/ Ran("uploadArabic")) =>
          Succeeded("generateEnglish") /\ Succeeded("generateArabic")
    /\ (req.status = 400 /\ req.message \in {"Invalid form data", "Invalid price format", "Validation failed"}) =>
          req.steps = <<>>
    /\ (req.pc = "replied" /\ (~req.form.parsed \/ ~req.form.price.parses \/ validateRequest(PropertyRequest(req.form)) # "")) =>
          req.status = 400 /\ req.steps = <<>>
    /\ req.status = 201 => Succeeded("insert")

\* a request with two images answered with 201 after its nine calls
C29_Witness ==
    /\ req.status = 201
    /\ Len(req.steps) = 9
    /\ Len(req.property.ImageURLs) = 2
    /\ \A i \in DOMAIN req.steps : req.steps[i].ok

\* C30: after a failed generation of the localized content the request goes
\* on: the property has empty English and Arabic content, its brochures
\* draw the legacy description, highlights and amenities, and the Arabic PDF
\* is generated once the English one is; after a failed generation of the
\* legacy AI content the request is answered with 500 and no PDF was
\* generated.
C30_LocalizedFailureTolerated ==
    /\ Failed("localized") =>
          /\ req.steps[Len(req.steps)].name = "localized" => (req.pc = "generateEnglish" /\ req.status = 0)
          /\ req.property.EnglishContent = NoContent
          /\ req.property.ArabicContent = NoContent
          /\ EnglishDetails(req.property).description =
                (IF req.aiContent.EnglishDescription # <<>> THEN req.aiContent.EnglishDescription ELSE req.form.description)
          /\ EnglishDetails(req.property).highlights = req.aiContent.KeyHighlights
          /\ EnglishDetails(req.property).amenities = req.form.amenities
          /\ ArabicDetails(req.property).description =
                (IF req.aiContent.ArabicDescription # <<>> THEN req.aiContent.ArabicDescription ELSE Lit.NoDescriptionAr)
          /\ Succeeded("generateEnglish") => (Ran("generateArabic") \/ req.pc = "generateArabic")
    /\ Failed("legacy") =>
          /\ req.pc = "replied"
          /\ req.status = 500
          /\ ~Ran("generateEnglish")
          /\ ~Ran("generateArabic")

\* a request answered with 201 although the localized content failed
C30_Witness ==
    /\ Failed("localized")
    /\ Succeeded("generateEnglish")
    /\ Succeeded("generateArabic")
    /\ req.status = 201
    /\ req.property.AIContent.EnglishDescription = Sample.DescAIEn


====
